---- MODULE Spec2Model ----
(***************************************************************************)
(* Model of source/lib/res/file/file_cache.cpp: the CacheAllocator         *)
(* (segregated freelists with boundary tags over one Pool), the            *)
(* ExtantBufMgr registry, the file cache facade (file_buf_alloc,           *)
(* file_buf_free, file_cache_add, ...) and the self-test driver            *)
(* test_cache_allocator.                                                   *)
(*                                                                         *)
(* Addresses and sizes are bytes.  The arena is scaled down from 64 MiB to *)
(* ArenaQuanta quanta of BUF_ALIGN bytes; everything else keeps the        *)
(* source's values.  Callers are assumed never to write bytes that look    *)
(* like a boundary tag into their buffers (the source's own caveat at      *)
(* is_valid_tag), so the only tags in memory are the allocator's.          *)
(***************************************************************************)
EXTENDS Integers, Sequences, FiniteSets, TLC

\* ------------------------------------------------------------------ bounds
\* number of BUF_ALIGN quanta in the (scaled-down) arena
ArenaQuanta == 4

\* ------------------------------------------------------- program constants
BUF_ALIGN == 4096
MAX_CACHE_SIZE == ArenaQuanta * BUF_ALIGN
\* freelists[] has one entry per bit of uintptr_t
NUM_SIZE_CLASSES == 32
\* address pool_create returns for the arena (page aligned, non-null)
POOL_BASE == 65536
\* value of a tag field that does not validate (never written, or 0xEE wiped)
NoTag == -1

Min(S) == CHOOSE x \in S : \A y \in S : x <= y
Max(S) == CHOOSE x \in S : \A y \in S : x >= y

\* lib: round_up(n, multiple)
round_up(n, multiple) == ((n + multiple - 1) \div multiple) * multiple

\* lib: log2(uint), the base-2 logarithm rounded down
RECURSIVE log2(_)
log2(x) == IF x <= 1 THEN 0 ELSE 1 + log2(x \div 2)

\* start addresses of the arena's quanta: where a Header can live; the Footer
\* of a region lives in the last bytes of the region's last quantum
QuantumAddrs == { POOL_BASE + i * BUF_ALIGN : i \in 0 .. (ArenaQuanta - 1) }
SizeClasses == 0 .. (NUM_SIZE_CLASSES - 1)

\* start of the quantum holding byte address a
QuantumOf(a) == POOL_BASE + ((a - POOL_BASE) \div BUF_ALIGN) * BUF_ALIGN

\* Footer* footer = (Footer*)(p+size_pa-sizeof(Footer)): the quantum it is in
FooterAt(p, size_pa) == QuantumOf(p + size_pa - 1)

\* ------------------------------------------------------------ Pool (lib)
\* a CacheAllocator value:
\*   pos       pool.da.pos = pool.da.cur_size: bytes handed out by pool_alloc
\*   bitmap    set of size classes whose bit is set
\*   freelists per size class, the nodes in list order (head first)
\*   hdr, ftr  per quantum, the size_pa of the valid Header at its start /
\*             the valid Footer at its end, or NoTag
\*   stale     the lists reset() has cut off from their heads: the nodes
\*             stay in memory with their tags and links.  Per list its size
\*             class (its first node's prev is that class's head), its nodes
\*             in link order, and those of them whose links freelist_add has
\*             rewritten since
\*   corrupt   the lists can no longer be followed: freelist_remove of
\*             memory that holds no Header, freelist_add of a node that is
\*             still linked, a tag written outside the arena, or a stale
\*             link followed into memory whose links have changed
CacheAllocator_ctor ==
    [ pos       |-> 0,
      bitmap    |-> {},
      freelists |-> [c \in SizeClasses |-> << >>],
      hdr       |-> [a \in QuantumAddrs |-> NoTag],
      ftr       |-> [a \in QuantumAddrs |-> NoTag],
      stale     |-> {},
      corrupt   |-> FALSE ]

\* pool_alloc(&pool, size_pa) of a pool created with el_size 0: bump
pool_alloc(ca, size_pa) ==
    IF ca.pos + size_pa <= MAX_CACHE_SIZE
    THEN [ca |-> [ca EXCEPT !.pos = @ + size_pa], p |-> POOL_BASE + ca.pos]
    ELSE [ca |-> ca, p |-> 0]

\* pool_contains(&pool, el)
pool_contains(ca, el) == POOL_BASE <= el /\ el < POOL_BASE + MAX_CACHE_SIZE

\* ------------------------------------------------------- CacheAllocator
\* (the cast to uint changes nothing: every size_pa here is below 2^31)
size_class_of(size_pa) == log2(size_pa)

\* id and magic validate exactly when the model holds a tag there
is_valid_tag(tag) == tag # NoTag

\* the nodes on the freelists
FreeNodes(ca) ==
    UNION { { ca.freelists[c][i] : i \in 1 .. Len(ca.freelists[c]) }
            : c \in SizeClasses }

\* the nodes whose links are part of a list now: those on the freelists and
\* those of the stale lists, other than g, whose links are still the list's
Linked(ca, g) ==
    FreeNodes(ca) \cup
    UNION { { h.nodes[i] : i \in 1 .. Len(h.nodes) } \ h.relinked
            : h \in ca.stale \ {g} }

InsertAt(s, k, e) == SubSeq(s, 1, k - 1) \o << e >> \o SubSeq(s, k, Len(s))

\* call by value: F applied to its arguments, each evaluated once (an
\* operator's arguments are otherwise re-evaluated wherever F mentions them,
\* which matters once free and alloc nest several calls deep)
ByValue1(F(_), a) ==
    CHOOSE r \in { F(x) : x \in {a} } : TRUE
ByValue2(F(_, _), a, b) ==
    CHOOSE r \in { F(x, y) : x \in {a}, y \in {b} } : TRUE
ByValue3(F(_, _, _), a, b, c) ==
    CHOOSE r \in { F(x, y, z) : x \in {a}, y \in {b}, z \in {c} } : TRUE

freelist_add(ca_, p_, size_pa_) ==
    LET body(ca, p, size_pa) ==
        LET size_class == size_class_of(size_pa)
            l == ca.freelists[size_class]
            footer == FooterAt(p, size_pa)
            \* while(prev->next && header <= prev->next) prev = prev->next;
            stop == { i \in 1 .. Len(l) : ~(p <= l[i]) }
            k == IF stop = {} THEN Len(l) + 1 ELSE Min(stop)
        IN  [ca EXCEPT !.hdr = [@ EXCEPT ![p] = size_pa],
                       !.ftr = IF footer \in QuantumAddrs
                               THEN [@ EXCEPT ![footer] = size_pa] ELSE @,
                       !.freelists = [@ EXCEPT ![size_class] = InsertAt(l, k, p)],
                       !.bitmap = @ \cup {size_class},
                       \* header->next, header->prev are assigned: a stale
                       \* list p is a node of no longer continues at p
                       !.stale = { IF \E i \in 1 .. Len(g.nodes) : g.nodes[i] = p
                                   THEN [g EXCEPT !.relinked = @ \cup {p}]
                                   ELSE g : g \in @ },
                       \* a node that is still linked gets its links overwritten,
                       \* or a tag lands outside the arena
                       !.corrupt = @ \/ p \in FreeNodes(ca)
                                     \/ footer \notin QuantumAddrs
                                     \/ p \notin QuantumAddrs]
    IN  ByValue3(body, ca_, p_, size_pa_)

freelist_remove(ca_, header_) ==
    LET body(ca, header) ==
        IF header \notin QuantumAddrs \/ ~is_valid_tag(ca.hdr[header])
        THEN [ca EXCEPT !.corrupt = TRUE]
        ELSE
        LET size_pa == ca.hdr[header]
            footer == FooterAt(header, size_pa)
            size_class == size_class_of(size_pa)
            Other(x) == x # header
            \* the stale list whose links header carries, if it is on none of
            \* the freelists
            own == { g \in ca.stale :
                       /\ \E i \in 1 .. Len(g.nodes) : g.nodes[i] = header
                       /\ header \notin g.relinked }
            g == CHOOSE h \in own : TRUE
            i == CHOOSE k \in 1 .. Len(g.nodes) : g.nodes[k] = header
            rest == SelectSeq(g.nodes, Other)
            \* header->prev->next = header->next, header->next->prev =
            \* header->prev: unlinks it from the list it is on.  The prev of
            \* a stale list's first node is the head of the class: the
            \* freelist of that class now is the rest of the stale list, and
            \* the nodes it had are cut off in their turn
            fl == IF header \in FreeNodes(ca)
                  THEN [c \in SizeClasses |-> SelectSeq(ca.freelists[c], Other)]
                  ELSE IF i = 1 THEN [ca.freelists EXCEPT ![g.class] = rest]
                  ELSE ca.freelists
            st == IF header \in FreeNodes(ca) THEN ca.stale
                  ELSE IF i = 1
                  THEN (ca.stale \ {g})
                       \cup (IF ca.freelists[g.class] = << >> THEN {}
                             ELSE { [class |-> g.class,
                                     nodes |-> ca.freelists[g.class],
                                     relinked |-> {}] })
                  ELSE (ca.stale \ {g}) \cup { [g EXCEPT !.nodes = rest] }
            \* the links written, or the list now headed, lead into memory
            \* that is part of another list or has been wiped
            astray == IF header \in FreeNodes(ca) THEN FALSE
                      ELSE IF own = {} THEN TRUE
                      ELSE IF i = 1
                      THEN \E k \in 1 .. Len(rest) : rest[k] \in g.relinked
                      ELSE \/ g.nodes[i - 1] \in Linked(ca, g)
                           \/ /\ i < Len(g.nodes)
                              /\ g.nodes[i + 1] \in Linked(ca, g)
        IN  IF astray THEN [ca EXCEPT !.corrupt = TRUE]
            ELSE
            [ca EXCEPT !.freelists = fl,
                       !.stale = st,
                       !.bitmap = IF fl[size_class] = << >>
                                  THEN @ \ {size_class} ELSE @,
                       !.hdr = [@ EXCEPT ![header] = NoTag],
                       !.ftr = IF footer \in QuantumAddrs
                               THEN [@ EXCEPT ![footer] = NoTag] ELSE @,
                       !.corrupt = @ \/ footer \notin QuantumAddrs]
    IN  ByValue2(body, ca_, header_)

\* variant: only the region before is merged, the one after is left alone
coalesce_and_free_prev_only(ca_, p_, size_pa_) ==
    LET body(ca, p, size_pa) ==
        LET footer == IF p # POOL_BASE THEN ca.ftr[QuantumOf(p - 1)] ELSE NoTag
            merge_prev == p # POOL_BASE /\ is_valid_tag(footer)
            p1 == IF merge_prev THEN p - footer ELSE p
            size1 == IF merge_prev THEN size_pa + footer ELSE size_pa
        IN  freelist_add(IF merge_prev THEN freelist_remove(ca, p1) ELSE ca,
                         p1, size1)
    IN  ByValue3(body, ca_, p_, size_pa_)

coalesce_and_free(ca_, p_, size_pa_) ==
    LET body(ca, p, size_pa) ==
        LET \* the Footer just before p, unless p is at the start of the pool
            footer == IF p # POOL_BASE THEN ca.ftr[QuantumOf(p - 1)] ELSE NoTag
            merge_prev == p # POOL_BASE /\ is_valid_tag(footer)
            p1 == IF merge_prev THEN p - footer ELSE p
            size1 == IF merge_prev THEN size_pa + footer ELSE size_pa
            \* ca1: the allocator once the region before has been unlinked
            following(ca1) ==
                LET \* the Header just after, unless beyond the committed
                    \* region
                    header == p1 + size1
                    merge_next == header < POOL_BASE + ca1.pos
                                  /\ is_valid_tag(ca1.hdr[header])
                    size2 == IF merge_next THEN size1 + ca1.hdr[header]
                             ELSE size1
                IN  freelist_add(IF merge_next
                                 THEN freelist_remove(ca1, header) ELSE ca1,
                                 p1, size2)
        IN  ByValue1(following,
                     IF merge_prev THEN freelist_remove(ca, p1) ELSE ca)
    IN  ByValue3(body, ca_, p_, size_pa_)

\* variant: the remnant is put back at the start of the node instead of
\* behind the part handed out
alloc_from_class_remnant_at_cur(ca_, size_class_, size_pa_) ==
    LET body(ca, size_class, size_pa) ==
        LET l == ca.freelists[size_class]
            fit == { i \in 1 .. Len(l) : ca.hdr[l[i]] >= size_pa }
        IN  IF fit = {} THEN [ca |-> ca, p |-> 0]
            ELSE LET cur == l[Min(fit)]
                     remnant_pa == ca.hdr[cur] - size_pa
                     ca1 == freelist_remove(ca, cur)
                 IN  [ca |-> IF remnant_pa # 0
                             THEN freelist_add(ca1, cur, remnant_pa)
                             ELSE ca1,
                      p |-> cur]
    IN  ByValue3(body, ca_, size_class_, size_pa_)

\* first node of the class that is large enough; what is left over goes
\* back on the freelists
alloc_from_class(ca_, size_class_, size_pa_) ==
    LET body(ca, size_class, size_pa) ==
        LET l == ca.freelists[size_class]
            fit == { i \in 1 .. Len(l) : ca.hdr[l[i]] >= size_pa }
        IN  IF fit = {} THEN [ca |-> ca, p |-> 0]
            ELSE LET cur == l[Min(fit)]
                     remnant_pa == ca.hdr[cur] - size_pa
                     remnant(ca1) ==
                         IF remnant_pa # 0
                         THEN freelist_add(ca1, cur + size_pa, remnant_pa)
                         ELSE ca1
                 IN  [ca |-> ByValue1(remnant, freelist_remove(ca, cur)),
                      p |-> cur]
    IN  ByValue3(body, ca_, size_class_, size_pa_)

RECURSIVE scan_classes(_, _, _)
scan_classes(ca_, classes_left_, size_pa_) ==
    LET body(ca, classes_left, size_pa) ==
        IF classes_left = {} THEN [ca |-> ca, p |-> 0]
        ELSE LET size_class == Min(classes_left)
                 or_next(r) ==
                     IF r.p # 0 THEN r
                     ELSE scan_classes(ca, classes_left \ {size_class},
                                       size_pa)
             IN  ByValue1(or_next, alloc_from_class(ca, size_class, size_pa))
    IN  ByValue3(body, ca_, classes_left_, size_pa_)

\* variant: the scan starts two classes above the ideal one
alloc_from_larger_class_skips_next(ca_, start_size_class_, size_pa_) ==
    LET body(ca, start_size_class, size_pa) ==
        scan_classes(ca, { c \in ca.bitmap : c > start_size_class + 1 },
                     size_pa)
    IN  ByValue3(body, ca_, start_size_class_, size_pa_)

alloc_from_larger_class(ca_, start_size_class_, size_pa_) ==
    LET body(ca, start_size_class, size_pa) ==
        scan_classes(ca, { c \in ca.bitmap : c >= start_size_class }, size_pa)
    IN  ByValue3(body, ca_, start_size_class_, size_pa_)

\* variant: the pool is asked before the freelist of the ideal class
alloc_pool_first(ca_, size0_) ==
    LET body(ca, size0) ==
        LET size == IF size0 = 0 THEN 1 ELSE size0
            size_pa == round_up(size, BUF_ALIGN)
            size_class == size_class_of(size_pa)
            r1 == alloc_from_class(ca, size_class, size_pa)
            r2 == pool_alloc(ca, size_pa)
            r3 == alloc_from_larger_class(ca, size_class, size_pa)
        IN  IF r2.p # 0 THEN [ca |-> r2.ca, p |-> r2.p, path |-> "pool"]
            ELSE IF r1.p # 0 THEN [ca |-> r1.ca, p |-> r1.p, path |-> "class"]
            ELSE IF r3.p # 0 THEN [ca |-> r3.ca, p |-> r3.p, path |-> "larger"]
            ELSE [ca |-> ca, p |-> 0, path |-> "fail"]
    IN  ByValue2(body, ca_, size0_)

\* variant: a larger class is split before the pool is asked
alloc_larger_before_pool(ca_, size0_) ==
    LET body(ca, size0) ==
        LET size == IF size0 = 0 THEN 1 ELSE size0
            size_pa == round_up(size, BUF_ALIGN)
            size_class == size_class_of(size_pa)
            r1 == alloc_from_class(ca, size_class, size_pa)
            r2 == pool_alloc(ca, size_pa)
            r3 == alloc_from_larger_class(ca, size_class, size_pa)
        IN  IF r1.p # 0 THEN [ca |-> r1.ca, p |-> r1.p, path |-> "class"]
            ELSE IF r3.p # 0 THEN [ca |-> r3.ca, p |-> r3.p, path |-> "larger"]
            ELSE IF r2.p # 0 THEN [ca |-> r2.ca, p |-> r2.p, path |-> "pool"]
            ELSE [ca |-> ca, p |-> 0, path |-> "fail"]
    IN  ByValue2(body, ca_, size0_)

\* CacheAllocator::alloc; "path" records which of the three sources served it
alloc(ca_, size0_) ==
    LET body(ca, size0) ==
        LET size == IF size0 = 0 THEN 1 ELSE size0
            size_pa == round_up(size, BUF_ALIGN)
            size_class == size_class_of(size_pa)
            \* if(p) return p; after each of the three attempts
            third(r3) ==
                IF r3.p # 0 THEN [ca |-> r3.ca, p |-> r3.p, path |-> "larger"]
                ELSE [ca |-> ca, p |-> 0, path |-> "fail"]
            second(r2) ==
                IF r2.p # 0 THEN [ca |-> r2.ca, p |-> r2.p, path |-> "pool"]
                ELSE ByValue1(third,
                        alloc_from_larger_class(ca, size_class, size_pa))
            first(r1) ==
                IF r1.p # 0 THEN [ca |-> r1.ca, p |-> r1.p, path |-> "class"]
                ELSE ByValue1(second, pool_alloc(ca, size_pa))
        IN  ByValue1(first, alloc_from_class(ca, size_class, size_pa))
    IN  ByValue2(body, ca_, size0_)

\* variant: the range check looks one byte past the region's end, so a
\* region that ends where the pool ends is rejected
free_end_off_by_one(ca_, p_, size_) ==
    LET body(ca, p, size) ==
        LET size_pa == round_up(size, BUF_ALIGN)
        IN  IF ~pool_contains(ca, p) \/ ~pool_contains(ca, p + size_pa)
            THEN ca
            ELSE coalesce_and_free(ca, p, size_pa)
    IN  ByValue3(body, ca_, p_, size_)

\* variant: only the start of the region is tested
free_checks_start_only(ca_, p_, size_) ==
    LET body(ca, p, size) ==
        LET size_pa == round_up(size, BUF_ALIGN)
        IN  IF ~pool_contains(ca, p)
            THEN ca
            ELSE coalesce_and_free(ca, p, size_pa)
    IN  ByValue3(body, ca_, p_, size_)

\* CacheAllocator::free
free(ca_, p_, size_) ==
    LET body(ca, p, size) ==
        LET size_pa == round_up(size, BUF_ALIGN)
        IN  IF ~pool_contains(ca, p) \/ ~pool_contains(ca, p + size_pa - 1)
            THEN ca
            ELSE coalesce_and_free(ca, p, size_pa)
    IN  ByValue3(body, ca_, p_, size_)

\* lib: pool_free_all(&pool) rewinds the pool to its base
pool_free_all(ca) == [ca EXCEPT !.pos = 0]

\* CacheAllocator::reset: bitmap = 0, and memset clears the heads of
\* freelists[]; the nodes stay as they are
reset(ca) ==
    [pool_free_all(ca) EXCEPT
        !.bitmap = {},
        !.freelists = [c \in SizeClasses |-> << >>],
        !.stale = @ \cup { [class |-> c, nodes |-> ca.freelists[c],
                            relinked |-> {}]
                          : c \in { d \in SizeClasses :
                                      ca.freelists[d] # << >> } }]

\* --------------------------------------------------------- ExtantBufMgr
\* an ExtantBufMgr value: [bufs |-> the vector extant_bufs, epoch |-> epoch]
NULL_FN == "null"
ExtantBufMgr_ctor == [bufs |-> << >>, epoch |-> 1]

ExtantBuf(buf, size, atom_fn, epoch) ==
    [buf |-> buf, size |-> size, atom_fn |-> atom_fn, refs |-> 1,
     epoch |-> epoch]

matches(eb, buf) == eb.buf <= buf /\ buf < eb.buf + eb.size

\* index of the first entry matches() accepts, or 0
FirstMatch(m, buf) ==
    LET hit == { i \in 1 .. Len(m.bufs) : matches(m.bufs[i], buf) }
    IN  IF hit = {} THEN 0 ELSE Min(hit)

\* variant: a new entry is always appended, holes are never looked for
ExtantBufMgr_add_always_appends(m, buf, size0, atom_fn, long_lived) ==
    [bufs |-> Append(m.bufs,
                     ExtantBuf(buf, IF size0 = 0 THEN 1 ELSE size0, atom_fn,
                               IF long_lived THEN 0 ELSE m.epoch)),
     epoch |-> IF long_lived THEN m.epoch ELSE m.epoch + 1]

ExtantBufMgr_add(m, buf, size0, atom_fn, long_lived) ==
    LET size == IF size0 = 0 THEN 1 ELSE size0
        this_epoch == IF long_lived THEN 0 ELSE m.epoch
        epoch1 == IF long_lived THEN m.epoch ELSE m.epoch + 1
        holes == { i \in 1 .. Len(m.bufs) : m.bufs[i].buf = 0 }
        eb == ExtantBuf(buf, size, atom_fn, this_epoch)
    IN  [bufs |-> IF holes # {}
                  THEN [m.bufs EXCEPT ![Min(holes)] = eb]
                  ELSE Append(m.bufs, eb),
         epoch |-> epoch1]

\* variant: a new entry is made without looking for a live one
ExtantBufMgr_add_ref_always_adds(m, buf, size, atom_fn) ==
    ExtantBufMgr_add(m, buf, size, atom_fn, FALSE)

ExtantBufMgr_add_ref(m, buf, size, atom_fn) ==
    LET i == FirstMatch(m, buf)
    IN  IF i # 0 THEN [m EXCEPT !.bufs[i].refs = @ + 1]
        ELSE ExtantBufMgr_add(m, buf, size, atom_fn, FALSE)

\* variant: the epoch advances on the not-found path as well
ExtantBufMgr_find_and_remove_counts_miss(m, buf) ==
    LET i == FirstMatch(m, buf)
    IN  IF i = 0
        THEN [m |-> [m EXCEPT !.epoch = @ + 1], found |-> FALSE,
              actually_removed |-> FALSE,
              exact_buf |-> 0, size |-> 0, atom_fn |-> NULL_FN,
              late |-> FALSE]
        ELSE LET eb == m.bufs[i]
                 gone == eb.refs - 1 = 0
             IN  [m |-> [bufs |-> [m.bufs EXCEPT ![i] =
                            IF gone
                            THEN [eb EXCEPT !.refs = 0, !.buf = 0, !.size = 0,
                                            !.atom_fn = NULL_FN]
                            ELSE [eb EXCEPT !.refs = @ - 1]],
                         epoch |-> m.epoch + 1],
                  found |-> TRUE, actually_removed |-> gone,
                  exact_buf |-> eb.buf, size |-> eb.size,
                  atom_fn |-> eb.atom_fn,
                  late |-> eb.epoch # 0 /\ eb.epoch # m.epoch - 1]

\* result: the manager, whether an entry matched (if none did, "buf is not
\* on extant list! double free?" is raised), the return value
\* (actually_removed), the three out parameters and whether the
\* "buf not released immediately" warning was raised
ExtantBufMgr_find_and_remove(m, buf) ==
    LET i == FirstMatch(m, buf)
    IN  IF i = 0
        THEN [m |-> m, found |-> FALSE, actually_removed |-> FALSE,
              exact_buf |-> 0, size |-> 0, atom_fn |-> NULL_FN,
              late |-> FALSE]
        ELSE LET eb == m.bufs[i]
                 gone == eb.refs - 1 = 0
             IN  [m |-> [bufs |-> [m.bufs EXCEPT ![i] =
                            IF gone
                            THEN [eb EXCEPT !.refs = 0, !.buf = 0, !.size = 0,
                                            !.atom_fn = NULL_FN]
                            ELSE [eb EXCEPT !.refs = @ - 1]],
                         epoch |-> m.epoch + 1],
                  found |-> TRUE, actually_removed |-> gone,
                  exact_buf |-> eb.buf, size |-> eb.size,
                  atom_fn |-> eb.atom_fn,
                  late |-> eb.epoch # 0 /\ eb.epoch # m.epoch - 1]

\* variant: the entry is taken out and put in anew, which gives it the
\* current epoch
ExtantBufMgr_replace_owner_reinserts(m, buf, atom_fn) ==
    LET i == FirstMatch(m, buf)
    IN  IF i # 0
        THEN [m EXCEPT !.bufs[i].atom_fn = atom_fn,
                       !.bufs[i].epoch = m.epoch,
                       !.epoch = @ + 1]
        ELSE m

ExtantBufMgr_replace_owner(m, buf, atom_fn) ==
    LET i == FirstMatch(m, buf)
    IN  IF i # 0 THEN [m EXCEPT !.bufs[i].atom_fn = atom_fn] ELSE m

\* ------------------------------------------- Cache<const void*, FileIOBuf>
\* the file cache maps a key (atom_fn) to [buf, size]; every entry has cost 1.
\* Which entry is "least valuable" is the cache's own business: any entry.
Cache_ctor == << >>

\* Cache::add: one entry per key; a key already present keeps its entry
Cache_add(c, key, item, size) ==
    IF key \in DOMAIN c THEN c
    ELSE (key :> [buf |-> item, size |-> size]) @@ c

\* Cache::retrieve: whether key is present; c[key] is then the item and size
Cache_retrieve(c, key) == key \in DOMAIN c

Cache_remove(c, key) == [k \in DOMAIN c \ {key} |-> c[k]]

Cache_empty(c) == DOMAIN c = {}

\* -------------------------------------------------------------- BlockMgr
\* bound: the number of slots of the ring (the program has 32)
RingSlots == 2
MAX_BLOCKS == RingSlots
Slots == 0 .. MAX_BLOCKS - 1

BS_PENDING == "BS_PENDING"
BS_COMPLETE == "BS_COMPLETE"
BS_INVALID == "BS_INVALID"

\* BlockId
block_cache_make_id(atom_fn, block_num) ==
    [atom_fn |-> atom_fn, block_num |-> block_num]

block_eq(b1, b2) == b1.atom_fn = b2.atom_fn /\ b1.block_num = b2.block_num

\* pool_alloc(&pool, 0) of the pool of MAX_BLOCKS elements, called for slot i:
\* the address of the pool's element i, in units of FILE_BLOCK_SIZE above the
\* pool's base, plus one (0 is the null pointer)
block_pool_alloc(i) == i + 1

\* a BlockMgr value: [blocks |-> the array blocks, oldest_block |-> the cursor]
BlockMgr_ctor ==
    [ blocks |-> [i \in Slots |->
                    [id |-> block_cache_make_id(NULL_FN, 0),
                     mem |-> block_pool_alloc(i),
                     status |-> BS_INVALID,
                     refs |-> 0]],
      oldest_block |-> 0 ]

\* the first slot of the array whose id is id, or -1
FirstSlotWith(bm, id) ==
    LET hit == { i \in Slots : block_eq(bm.blocks[i].id, id) }
    IN  IF hit = {} THEN -1 ELSE Min(hit)

\* variant: the cursor is advanced before the slot under it is looked at
BlockMgr_alloc_scan_advances_first(bm, id, i) ==
    LET After(k) == (k - bm.oldest_block - 1) % MAX_BLOCKS
        Reusable(k) == bm.blocks[k].status # BS_PENDING /\ bm.blocks[k].refs = 0
        slot == CHOOSE k \in Slots :
                    /\ Reusable(k)
                    /\ \A j \in Slots : Reusable(j) => After(k) <= After(j)
    IN  IF \A k \in Slots : ~Reusable(k)
        THEN [bm |-> bm, ret |-> 0, passed |-> MAX_BLOCKS]
        ELSE [bm |-> [bm EXCEPT !.oldest_block = (slot + 1) % MAX_BLOCKS,
                                !.blocks[slot].id = id,
                                !.blocks[slot].status = BS_PENDING],
              ret |-> bm.blocks[slot].mem, passed |-> After(slot)]

\* variant: the scan gives up after the slot under the cursor
BlockMgr_alloc_scan_cursor_only(bm, id, i) ==
    LET b == bm.blocks[bm.oldest_block]
        bm1 == [bm EXCEPT !.oldest_block = (@ + 1) % MAX_BLOCKS]
    IN  IF b.status # BS_PENDING /\ b.refs = 0
        THEN [bm |-> [bm1 EXCEPT !.blocks[bm.oldest_block].id = id,
                                 !.blocks[bm.oldest_block].status = BS_PENDING],
              ret |-> b.mem, passed |-> 0]
        ELSE [bm |-> bm, ret |-> 0, passed |-> MAX_BLOCKS]

\* variant: a slot is taken whenever it is not Pending, referenced or not
BlockMgr_alloc_scan_ignores_refs(bm, id, i) ==
    LET slot == CHOOSE k \in Slots :
                    /\ bm.blocks[k].status # BS_PENDING
                    /\ \A j \in Slots :
                          bm.blocks[j].status # BS_PENDING
                              => (k - bm.oldest_block) % MAX_BLOCKS
                                    <= (j - bm.oldest_block) % MAX_BLOCKS
    IN  IF \A k \in Slots : bm.blocks[k].status = BS_PENDING
        THEN [bm |-> bm, ret |-> 0, passed |-> MAX_BLOCKS]
        ELSE [bm |-> [bm EXCEPT !.oldest_block = (slot + 1) % MAX_BLOCKS,
                                !.blocks[slot].id = id,
                                !.blocks[slot].status = BS_PENDING],
              ret |-> bm.blocks[slot].mem,
              passed |-> (slot - bm.oldest_block) % MAX_BLOCKS]

\* variant: the cursor is left on the slot handed out
BlockMgr_alloc_scan_cursor_stays(bm, id, i) ==
    LET Dist(k) == (k - bm.oldest_block) % MAX_BLOCKS
        Reusable(k) == bm.blocks[k].status # BS_PENDING /\ bm.blocks[k].refs = 0
        slot == CHOOSE k \in Slots :
                    /\ Reusable(k)
                    /\ \A j \in Slots : Reusable(j) => Dist(k) <= Dist(j)
    IN  IF \A k \in Slots : ~Reusable(k)
        THEN [bm |-> bm, ret |-> 0, passed |-> MAX_BLOCKS]
        ELSE [bm |-> [bm EXCEPT !.oldest_block = slot,
                                !.blocks[slot].id = id,
                                !.blocks[slot].status = BS_PENDING],
              ret |-> bm.blocks[slot].mem, passed |-> Dist(slot)]

\* BlockMgr::alloc, its second loop from iteration i on; passed is the
\* number of slots the loop went past
RECURSIVE BlockMgr_alloc_scan(_, _, _)
BlockMgr_alloc_scan(bm, id, i) ==
    IF i = MAX_BLOCKS
    THEN \* debug_warn("all blocks are locked"); return 0
         [bm |-> bm, ret |-> 0, passed |-> i]
    ELSE LET b == bm.blocks[bm.oldest_block]
             bm1 == [bm EXCEPT !.oldest_block = (@ + 1) % MAX_BLOCKS]
         IN  IF b.status # BS_PENDING /\ b.refs = 0
             THEN \* have_block
                  [bm |-> [bm1 EXCEPT !.blocks[bm.oldest_block].id = id,
                                      !.blocks[bm.oldest_block].status =
                                          BS_PENDING],
                   ret |-> b.mem, passed |-> i]
             ELSE \* Complete and referenced: continue; anything else is
                  \* reported ("status and/or refs have unexpected values")
                  \* and the loop goes on as well
                  BlockMgr_alloc_scan(bm1, id, i + 1)

\* BlockMgr::alloc; its first loop only reports an id that is in the array
\* already
BlockMgr_alloc(bm, id) == BlockMgr_alloc_scan(bm, id, 0)

\* variant: the Pending slot with the id is the one completed
BlockMgr_mark_completed_pending_slot(bm, id) ==
    LET hit == { i \in Slots : /\ block_eq(bm.blocks[i].id, id)
                               /\ bm.blocks[i].status = BS_PENDING }
    IN  IF hit = {} THEN bm
        ELSE [bm EXCEPT !.blocks[Min(hit)].status = BS_COMPLETE]

\* BlockMgr::mark_completed: debug_assert(b->status == BS_PENDING) reports,
\* the assignment follows either way
BlockMgr_mark_completed(bm, id) ==
    LET i == FirstSlotWith(bm, id)
    IN  IF i = -1 THEN bm
        ELSE [bm EXCEPT !.blocks[i].status = BS_COMPLETE]

\* variant: the memory is returned without a reference being taken
BlockMgr_find_takes_no_ref(bm, id) ==
    LET i == FirstSlotWith(bm, id)
    IN  IF i # -1 /\ bm.blocks[i].status = BS_COMPLETE
        THEN [bm |-> bm, ret |-> bm.blocks[i].mem, warned |-> FALSE]
        ELSE [bm |-> bm, ret |-> 0, warned |-> i # -1]

\* BlockMgr::find; warned: debug_warn("block referenced while still in
\* progress") was raised
BlockMgr_find(bm, id) ==
    LET i == FirstSlotWith(bm, id)
    IN  IF i = -1
        THEN \* not found
             [bm |-> bm, ret |-> 0, warned |-> FALSE]
        ELSE IF bm.blocks[i].status = BS_COMPLETE
        THEN [bm |-> [bm EXCEPT !.blocks[i].refs = @ + 1],
              ret |-> bm.blocks[i].mem, warned |-> FALSE]
        ELSE \* in the array, Pending or Invalid
             [bm |-> bm, ret |-> 0, warned |-> TRUE]

\* BlockMgr::release: debug_assert(b->refs >= 0) reports after the decrement
BlockMgr_release(bm, id) ==
    LET i == FirstSlotWith(bm, id)
    IN  IF i = -1 THEN bm
        ELSE [bm EXCEPT !.blocks[i].refs = @ - 1]

\* BlockMgr::invalidate
BlockMgr_invalidate(bm, atom_fn) ==
    [bm EXCEPT !.blocks = [i \in Slots |->
        IF bm.blocks[i].id.atom_fn = atom_fn
        THEN [bm.blocks[i] EXCEPT !.status = BS_INVALID]
        ELSE bm.blocks[i]]]

\* ------------------------------------------------------------------ state
VARIABLES
    cache_allocator,  \* static CacheAllocator cache_allocator
    allocations,      \* test_cache_allocator: AllocMap, address -> its size
    last,             \* history: the most recent allocator call and its result
    prev,             \* history: the call before it
    twin,             \* history, kept from reset() on: an allocator that was
                      \* constructed when reset() was called and has been
                      \* given the same calls since, and its last result
    extant_bufs,      \* static ExtantBufMgr extant_bufs
    file_cache,       \* static Cache<const void*, FileIOBuf> file_cache
    pc,               \* "idle", or "alloc" while file_buf_alloc is in its loop,
                      \* or "flush" while file_cache_flush is in its loop
    call,             \* file_buf_alloc: its parameters
    attempts,         \* file_buf_alloc: uint attempts
    ret,              \* history: the most recent facade call and its result
    checkouts,        \* history: per address, check-outs not yet released
    block_mgr,        \* static BlockMgr block_mgr
    issued            \* history, kept only in behaviours that start with
                      \* recording on: the slots alloc has handed out since
                      \* the last invalidate of the file of the block they hold

vars == << cache_allocator, allocations, last, prev, twin,
           extant_bufs, file_cache, pc, call, attempts, ret, checkouts,
           block_mgr, issued >>

testVars == << allocations, last, prev, twin >>
facadeVars == << extant_bufs, file_cache, pc, call, attempts, ret, checkouts,
                block_mgr, issued >>

\* request sizes: zero bytes (alloc provides for them, and file_buf_alloc
\* passes on the length of an empty file), and of those the self test draws
\* one quantum, one byte more and the whole arena
ReqSizes == { 0, BUF_ALIGN, BUF_ALIGN + 1, MAX_CACHE_SIZE }

\* the bytes alloc(size) takes from the arena
RoundedSize(size) == round_up(IF size = 0 THEN 1 ELSE size, BUF_ALIGN)

NoCall == [op |-> "none", p |-> 0, size |-> 0]
NoRequest == [size |-> 0, atom_fn |-> NULL_FN, long_lived |-> FALSE,
              spun |-> FALSE]

\* the two calls are frees of address-adjacent regions
AdjacentFrees(a, b) ==
    /\ a.op = "free" /\ b.op = "free"
    /\ \/ a.p + RoundedSize(a.size) = b.p
       \/ b.p + RoundedSize(b.size) = a.p

\* the size of the one freelist entry that covers both regions, or 0
SpanningSize(ca, a, b) ==
    LET lo == Min({a.p, b.p})
        hi == lo + RoundedSize(a.size) + RoundedSize(b.size)
        spanning == { n \in FreeNodes(ca) : n <= lo /\ n + ca.hdr[n] >= hi }
    IN  IF Cardinality(spanning) = 1
        THEN ca.hdr[CHOOSE n \in spanning : TRUE] ELSE 0

\* the state after construction, but for the history issued
Constructed ==
    /\ cache_allocator = CacheAllocator_ctor
    /\ allocations = << >>
    /\ last = NoCall
    /\ prev = NoCall
    /\ twin = [on |-> FALSE, ca |-> CacheAllocator_ctor, p |-> 0]
    /\ extant_bufs = ExtantBufMgr_ctor
    /\ file_cache = Cache_ctor
    /\ pc = "idle"
    /\ call = NoRequest
    /\ attempts = 0
    /\ ret = [op |-> "none"]
    /\ checkouts = [a \in QuantumAddrs |-> 0]
    /\ block_mgr = BlockMgr_ctor

Init == Constructed /\ issued = [recording |-> FALSE, slots |-> {}]

\* test_cache_allocator: p = cache_allocator.alloc(size); allocations[p] = size
TestAlloc(size) ==
    \E r \in { alloc(cache_allocator, size) } :
        /\ cache_allocator' = r.ca
        /\ allocations' = IF r.p = 0 THEN allocations
                          ELSE (r.p :> size) @@ allocations
        /\ last' = [op |-> "alloc", p |-> r.p, size |-> size, path |-> r.path,
                    \* TEST(allocations.find(p) == allocations.end())
                    dup |-> r.p \in DOMAIN allocations,
                    n_out |-> Cardinality(DOMAIN allocations),
                    \* combined size of the adjacent pair the two calls
                    \* before this one freed, or 0
                    pair |-> IF AdjacentFrees(prev, last)
                             THEN RoundedSize(prev.size) + RoundedSize(last.size)
                             ELSE 0,
                    \* size of the freelist entry that pair is part of, or 0
                    merged |-> IF AdjacentFrees(prev, last)
                               THEN SpanningSize(cache_allocator, prev, last)
                               ELSE 0]
        /\ prev' = [op |-> last.op, p |-> last.p, size |-> last.size]
        /\ twin' = IF twin.on
                   THEN LET given(t) == [twin EXCEPT !.ca = t.ca, !.p = t.p]
                        IN  ByValue1(given, alloc(twin.ca, size))
                   ELSE twin
        /\ UNCHANGED facadeVars

\* test_cache_allocator: cache_allocator.free(it->first, it->second);
\* allocations.erase(it)
TestFree(p) ==
    /\ p \in DOMAIN allocations
    /\ cache_allocator' = free(cache_allocator, p, allocations[p])
    /\ allocations' = [q \in DOMAIN allocations \ {p} |-> allocations[q]]
    /\ last' = [op |-> "free", p |-> p, size |-> allocations[p]]
    /\ prev' = [op |-> last.op, p |-> last.p, size |-> last.size]
    /\ twin' = IF twin.on
               THEN [twin EXCEPT !.ca = free(@, p, allocations[p]), !.p = 0]
               ELSE twin
    /\ UNCHANGED facadeVars

NextCA ==
    \/ \E size \in ReqSizes : TestAlloc(size)
    \/ \E p \in QuantumAddrs : TestFree(p)

SpecCA == Init /\ [][NextCA]_vars

\* test_cache_allocator: cache_allocator.reset(), the last statement of the
\* test (its map of allocations goes out of scope); the allocator is in use
\* afterwards
TestReset ==
    /\ ~twin.on
    /\ cache_allocator' = reset(cache_allocator)
    /\ allocations' = << >>
    /\ last' = [op |-> "reset", p |-> 0, size |-> 0]
    /\ prev' = [op |-> last.op, p |-> last.p, size |-> last.size]
    /\ twin' = [on |-> TRUE, ca |-> CacheAllocator_ctor, p |-> 0]
    /\ UNCHANGED facadeVars

\* request sizes of the runs with a reset: one quantum and two
ResetSizes == { BUF_ALIGN, 2 * BUF_ALIGN }

\* no alloc since the reset has returned another address than the twin's,
\* and the lists can still be followed: the runs are followed up to the
\* first call that shows a difference
Agree ==
    twin.on => /\ last.op = "alloc" => twin.p = last.p
               /\ ~cache_allocator.corrupt

NextCAReset ==
    \/ Agree /\ \E size \in ResetSizes : TestAlloc(size)
    \/ Agree /\ \E p \in QuantumAddrs : TestFree(p)
    \/ TestReset

SpecCAReset == Init /\ [][NextCAReset]_vars

\* addresses callers pass to free by mistake: the page below the arena, the
\* arena's last quantum, its second byte, and the first byte past the arena
StrayAddrs ==
    { POOL_BASE - BUF_ALIGN, POOL_BASE + MAX_CACHE_SIZE - BUF_ALIGN,
      POOL_BASE + MAX_CACHE_SIZE - BUF_ALIGN + 1, POOL_BASE + MAX_CACHE_SIZE }

StraySizes == { BUF_ALIGN, BUF_ALIGN + 1 }

\* [p, p + size_pa) lies in the arena
InArena(p, size_pa) ==
    POOL_BASE <= p /\ p + size_pa <= POOL_BASE + MAX_CACHE_SIZE

\* cache_allocator.free(p, size) of a region that is not, or not all, in the
\* arena
TestFreeStray(p, size) ==
    /\ ~InArena(p, round_up(size, BUF_ALIGN))
    /\ cache_allocator' = free(cache_allocator, p, size)
    /\ last' = [op |-> "free", p |-> p, size |-> size]
    /\ prev' = [op |-> last.op, p |-> last.p, size |-> last.size]
    /\ UNCHANGED << allocations, twin >>
    /\ UNCHANGED facadeVars

NextCAStray ==
    \/ \E size \in ResetSizes : TestAlloc(size)
    \/ \E p \in QuantumAddrs : TestFree(p)
    \/ \E p \in StrayAddrs, size \in StraySizes : TestFreeStray(p, size)

SpecCAStray == Init /\ [][NextCAStray]_vars

\* ---------------------------------------------------------------- facade
\* bound: a call that could take the registry's epoch counter past this is
\* not made; long-lived entries and extra references, which do not advance
\* the counter, count as if they did
MaxEpoch == 4

RECURSIVE ExtraRefs(_)
ExtraRefs(bufs) ==
    IF bufs = << >> THEN 0
    ELSE (IF Head(bufs).epoch = 0 THEN 1 ELSE 0)
         + (IF Head(bufs).refs > 1 THEN Head(bufs).refs - 1 ELSE 0)
         + ExtraRefs(Tail(bufs))

\* one more registry call stays within the bound max
WithinBudget(max) == extant_bufs.epoch + ExtraRefs(extant_bufs.bufs) < max

\* if(attempts++ > 50)
RETRY_WARN == 50
\* attempts is only ever compared with RETRY_WARN, and every value above it
\* compares alike: the model folds those values onto RETRY_WARN + 1 and
\* RETRY_WARN + 2 (the counter's wrap after 2^32 iterations is left out)
AttemptsCap == RETRY_WARN + 2

Atoms == { "X", "Y" }

\* sizes callers ask file_buf_alloc for: one byte more than a quantum, and
\* the whole arena
BufSizes == { BUF_ALIGN + 1, MAX_CACHE_SIZE }

\* the facade is single threaded; once the allocator has followed a wild
\* pointer the program's behaviour is undefined and the run ends there
Callable == pc = "idle" /\ ~cache_allocator.corrupt

Count(a, d) == [checkouts EXCEPT ![a] = @ + d]

\* file_buf_alloc is entered
FileBufAllocCallWithin(max, size, atom_fn, long_lived) ==
    /\ Callable
    /\ WithinBudget(max)
    /\ pc' = "alloc"
    /\ call' = [size |-> size, atom_fn |-> atom_fn, long_lived |-> long_lived,
                spun |-> FALSE]
    /\ attempts' = 0
    /\ ret' = [op |-> "call"]
    /\ UNCHANGED << cache_allocator, extant_bufs, file_cache, checkouts >>
    /\ UNCHANGED << testVars, block_mgr, issued >>

FileBufAllocCall(size, atom_fn, long_lived) ==
    FileBufAllocCallWithin(MaxEpoch, size, atom_fn, long_lived)

\* file_buf_alloc, an iteration whose cache_allocator.alloc succeeds: break,
\* extant_bufs.add, return buf
FileBufAllocReturn ==
    /\ pc = "alloc" /\ ~cache_allocator.corrupt
    /\ \E r \in { alloc(cache_allocator, call.size) } :
        /\ r.p # 0
        /\ cache_allocator' = r.ca
        /\ extant_bufs' = ExtantBufMgr_add(extant_bufs, r.p, call.size,
                                           call.atom_fn, call.long_lived)
        /\ pc' = "idle"
        /\ call' = NoRequest
        /\ attempts' = 0
        /\ ret' = [op |-> "file_buf_alloc", evicted |-> attempts > 0]
        /\ checkouts' = Count(r.p, 1)
        /\ UNCHANGED file_cache
        /\ UNCHANGED << testVars, block_mgr, issued >>

\* if(attempts++ > 50) debug_warn(..): the loop goes on either way
NextAttempts ==
    IF attempts = AttemptsCap THEN RETRY_WARN + 1 ELSE attempts + 1

\* file_buf_alloc, an iteration whose alloc fails while the cache holds an
\* entry: remove_least_valuable, free its buffer, go round again
FileBufAllocEvict ==
    /\ pc = "alloc" /\ ~cache_allocator.corrupt
    /\ alloc(cache_allocator, call.size).p = 0
    /\ \E key \in DOMAIN file_cache :
          /\ file_cache' = Cache_remove(file_cache, key)
          /\ cache_allocator' = free(cache_allocator, file_cache[key].buf,
                                     file_cache[key].size)
    /\ attempts' = NextAttempts
    /\ UNCHANGED << extant_bufs, pc, call, ret, checkouts >>
    /\ UNCHANGED << testVars, block_mgr, issued >>

\* file_buf_alloc, an iteration whose alloc fails while the cache is empty:
\* remove_least_valuable returns false and leaves discarded_buf and size
\* unset, TEST(removed) only reports, and free is called with those
\* indeterminate values: it either rejects them ("invalid pointer") or
\* follows them into the arena.  Nothing writes the two variables between
\* one such iteration and the next, so a call that was rejected once is
\* rejected again (call.spun).
FileBufAllocSpin ==
    /\ pc = "alloc" /\ ~cache_allocator.corrupt
    /\ alloc(cache_allocator, call.size).p = 0
    /\ Cache_empty(file_cache)
    /\ \/ cache_allocator' = cache_allocator
       \/ /\ ~call.spun
          /\ cache_allocator' = [cache_allocator EXCEPT !.corrupt = TRUE]
    /\ call' = [call EXCEPT !.spun = TRUE]
    /\ attempts' = NextAttempts
    /\ UNCHANGED << extant_bufs, file_cache, pc, ret, checkouts >>
    /\ UNCHANGED << testVars, block_mgr, issued >>

\* file_buf_free(buf), buf # 0
FileBufFreeWithin(max, buf) ==
    LET f == ExtantBufMgr_find_and_remove(extant_bufs, buf)
        in_cache == Cache_retrieve(file_cache, f.atom_fn)
        freed == f.actually_removed /\ ~in_cache
        \* the cache holds this very buffer under the buffer's owner
        held == /\ f.found /\ in_cache
                /\ file_cache[f.atom_fn].buf = f.exact_buf
    IN  /\ Callable
        /\ WithinBudget(max)
        /\ extant_bufs' = f.m
        /\ cache_allocator' = IF freed
                              THEN free(cache_allocator, f.exact_buf, f.size)
                              ELSE cache_allocator
        /\ ret' = [op |-> "file_buf_free", found |-> f.found,
                   actually_removed |-> f.actually_removed,
                   late |-> f.late, freed |-> freed, held |-> held,
                   \* check-outs of that address still to be released
                   left |-> IF f.found THEN checkouts[f.exact_buf] - 1 ELSE 0,
                   \* trace_notify_free(atom_fn, actual_size): find_and_remove
                   \* sets neither when it finds nothing
                   traced |-> IF f.found THEN f.atom_fn ELSE "indeterminate"]
        /\ checkouts' = IF f.found THEN Count(f.exact_buf, -1) ELSE checkouts
        /\ UNCHANGED << file_cache, pc, call, attempts >>
        /\ UNCHANGED << testVars, block_mgr, issued >>

FileBufFree(buf) == FileBufFreeWithin(MaxEpoch, buf)

\* file_buf_set_real_fn(buf, atom_fn)
FileBufSetRealFn(buf, atom_fn) ==
    /\ Callable
    /\ extant_bufs' = ExtantBufMgr_replace_owner(extant_bufs, buf, atom_fn)
    /\ ret' = [op |-> "file_buf_set_real_fn"]
    /\ UNCHANGED << cache_allocator, file_cache, pc, call, attempts, checkouts >>
    /\ UNCHANGED << testVars, block_mgr, issued >>

\* file_cache_add(buf, size, atom_fn), called (as file_io does once a read has
\* completed) with a buffer the caller holds, its size and the file it
\* belongs to: those of the i-th registry entry
FileCacheAdd(i) ==
    /\ Callable
    /\ i \in 1 .. Len(extant_bufs.bufs)
    /\ extant_bufs.bufs[i].buf # 0
    /\ file_cache' = Cache_add(file_cache, extant_bufs.bufs[i].atom_fn,
                               extant_bufs.bufs[i].buf,
                               extant_bufs.bufs[i].size)
    /\ ret' = [op |-> "file_cache_add"]
    /\ UNCHANGED << cache_allocator, extant_bufs, pc, call, attempts, checkouts >>
    /\ UNCHANGED << testVars, block_mgr, issued >>

\* variant: the lookup registers a reference, as file_cache_retrieve does
FileCacheFind_adds_ref(atom_fn) ==
    LET hit == Cache_retrieve(file_cache, atom_fn)
    IN  /\ Callable
        /\ extant_bufs' = IF hit
                          THEN ExtantBufMgr_add_ref(extant_bufs,
                                   file_cache[atom_fn].buf,
                                   file_cache[atom_fn].size, atom_fn)
                          ELSE extant_bufs
        /\ ret' = [op |-> "file_cache_find", hit |-> hit]
        /\ UNCHANGED << cache_allocator, file_cache, pc, call, attempts,
                        checkouts >>
        /\ UNCHANGED << testVars, block_mgr, issued >>

\* file_cache_find(atom_fn, psize)
FileCacheFind(atom_fn) ==
    /\ Callable
    /\ ret' = [op |-> "file_cache_find",
               hit |-> Cache_retrieve(file_cache, atom_fn)]
    /\ UNCHANGED << cache_allocator, extant_bufs, file_cache, pc, call,
                    attempts, checkouts >>
    /\ UNCHANGED << testVars, block_mgr, issued >>

\* file_cache_retrieve(atom_fn, psize)
FileCacheRetrieveWithin(max, atom_fn) ==
    LET hit == Cache_retrieve(file_cache, atom_fn)
        buf == IF hit THEN file_cache[atom_fn].buf ELSE 0
    IN  /\ Callable
        /\ WithinBudget(max)
        /\ extant_bufs' = IF buf # 0
                          THEN ExtantBufMgr_add_ref(extant_bufs, buf,
                                   file_cache[atom_fn].size, atom_fn)
                          ELSE extant_bufs
        /\ checkouts' = IF buf # 0 THEN Count(buf, 1) ELSE checkouts
        /\ ret' = [op |-> "file_cache_retrieve", hit |-> buf # 0]
        /\ UNCHANGED << cache_allocator, file_cache, pc, call, attempts >>
        /\ UNCHANGED << testVars, block_mgr, issued >>

FileCacheRetrieve(atom_fn) == FileCacheRetrieveWithin(MaxEpoch, atom_fn)

\* file_cache_invalidate(P_fn)
FileCacheInvalidate(atom_fn) ==
    /\ Callable
    /\ block_mgr' = BlockMgr_invalidate(block_mgr, atom_fn)
    /\ issued' = IF issued.recording
                 THEN [issued EXCEPT !.slots =
                         { k \in @ : block_mgr.blocks[k].id.atom_fn # atom_fn }]
                 ELSE issued
    /\ IF Cache_retrieve(file_cache, atom_fn)
       THEN /\ file_cache' = Cache_remove(file_cache, atom_fn)
            /\ cache_allocator' = free(cache_allocator, file_cache[atom_fn].buf,
                                       file_cache[atom_fn].size)
       ELSE UNCHANGED << file_cache, cache_allocator >>
    /\ ret' = [op |-> "file_cache_invalidate",
               hit |-> Cache_retrieve(file_cache, atom_fn)]
    /\ UNCHANGED << extant_bufs, pc, call, attempts, checkouts >>
    /\ UNCHANGED testVars

\* the orders in which remove_least_valuable can hand out the entries of c
EvictionOrders(c) ==
    { o \in [1 .. Cardinality(DOMAIN c) -> DOMAIN c] :
        \A i, j \in DOMAIN o : o[i] = o[j] => i = j }

RECURSIVE FreeAll(_, _, _)
FreeAll(ca, c, order) ==
    IF order = << >> THEN ca
    ELSE FreeAll(free(ca, c[Head(order)].buf, c[Head(order)].size), c,
                 Tail(order))

\* file_cache_flush()
FileCacheFlush ==
    /\ Callable
    /\ \E order \in EvictionOrders(file_cache) :
          cache_allocator' = FreeAll(cache_allocator, file_cache, order)
    /\ file_cache' = Cache_ctor
    /\ ret' = [op |-> "file_cache_flush", hit |-> ~Cache_empty(file_cache)]
    /\ UNCHANGED << extant_bufs, pc, call, attempts, checkouts >>
    /\ UNCHANGED << testVars, block_mgr, issued >>

\* addresses callers pass to file_buf_free and file_buf_set_real_fn: the
\* start of a quantum, or a byte inside it
BufAddrs == QuantumAddrs \cup { a + 1 : a \in QuantumAddrs }

Next ==
    \/ \E size \in BufSizes, atom_fn \in Atoms :
          FileBufAllocCall(size, atom_fn, FALSE)
    \/ FileBufAllocReturn
    \/ FileBufAllocEvict
    \/ FileBufAllocSpin
    \/ \E buf \in BufAddrs : FileBufFree(buf)
    \/ \E i \in 1 .. ArenaQuanta : FileCacheAdd(i)
    \/ \E atom_fn \in Atoms : FileCacheRetrieve(atom_fn)
    \/ \E atom_fn \in Atoms : FileCacheInvalidate(atom_fn)
    \/ FileCacheFlush

Spec == Init /\ [][Next]_vars

\* the facade with its two remaining entry points, and with callers that ask
\* for long-lived buffers (FB_LONG_LIVED)
NextAll ==
    \/ Next
    \/ \E size \in BufSizes, atom_fn \in Atoms :
          FileBufAllocCall(size, atom_fn, TRUE)
    \/ \E buf \in BufAddrs, atom_fn \in Atoms : FileBufSetRealFn(buf, atom_fn)
    \/ \E atom_fn \in Atoms : FileCacheFind(atom_fn)

SpecAll == Init /\ [][NextAll]_vars

\* the facade of Spec with the side-effect free lookup the trace simulator
\* uses
NextFind ==
    \/ Next
    \/ \E atom_fn \in Atoms : FileCacheFind(atom_fn)

SpecFind == Init /\ [][NextFind]_vars

\* the facade with file_buf_set_real_fn, which is passed addresses that
\* file_buf_alloc can have returned
NextRealFn ==
    \/ Next
    \/ \E buf \in QuantumAddrs, atom_fn \in Atoms :
          FileBufSetRealFn(buf, atom_fn)

SpecRealFn == Init /\ [][NextRealFn]_vars

\* ------------------------------------------------- file_cache_flush's loop
\* file_cache_flush is entered; call remembers what the cache held and
\* collects what the loop passes to cache_allocator.free
FileCacheFlushCall ==
    /\ Callable
    /\ pc' = "flush"
    /\ call' = [cached |-> file_cache, freed |-> << >>]
    /\ ret' = [op |-> "call"]
    /\ UNCHANGED << cache_allocator, extant_bufs, file_cache, attempts,
                    checkouts >>
    /\ UNCHANGED << testVars, block_mgr, issued >>

\* variant: the entry is taken out of the cache and its buffer forgotten
FileCacheFlushStep_drops ==
    /\ pc = "flush" /\ ~cache_allocator.corrupt
    /\ \E key \in DOMAIN file_cache :
          file_cache' = Cache_remove(file_cache, key)
    /\ UNCHANGED << cache_allocator, extant_bufs, pc, call, attempts, ret,
                    checkouts >>
    /\ UNCHANGED << testVars, block_mgr, issued >>

\* file_cache_flush, an iteration whose remove_least_valuable hands out an
\* entry: cache_allocator.free(discarded_buf, size), go round again
FileCacheFlushStep ==
    /\ pc = "flush" /\ ~cache_allocator.corrupt
    /\ \E key \in DOMAIN file_cache :
          /\ file_cache' = Cache_remove(file_cache, key)
          /\ cache_allocator' = free(cache_allocator, file_cache[key].buf,
                                     file_cache[key].size)
          /\ call' = [call EXCEPT !.freed =
                         Append(@, [key |-> key, buf |-> file_cache[key].buf,
                                    size |-> file_cache[key].size])]
    /\ UNCHANGED << extant_bufs, pc, attempts, ret, checkouts >>
    /\ UNCHANGED << testVars, block_mgr, issued >>

\* file_cache_flush, the iteration whose remove_least_valuable returns
\* false: return
FileCacheFlushReturn ==
    /\ pc = "flush" /\ ~cache_allocator.corrupt
    /\ Cache_empty(file_cache)
    /\ pc' = "idle"
    /\ ret' = [op |-> "file_cache_flush", hit |-> call.freed # << >>,
               cached |-> call.cached, freed |-> call.freed]
    /\ call' = NoRequest
    /\ UNCHANGED << cache_allocator, extant_bufs, file_cache, attempts,
                    checkouts >>
    /\ UNCHANGED << testVars, block_mgr, issued >>

\* the facade of Spec with file_cache_flush taken one loop iteration at a
\* time
NextFlush ==
    \/ \E size \in BufSizes, atom_fn \in Atoms :
          FileBufAllocCall(size, atom_fn, FALSE)
    \/ FileBufAllocReturn
    \/ FileBufAllocEvict
    \/ FileBufAllocSpin
    \/ \E buf \in BufAddrs : FileBufFree(buf)
    \/ \E i \in 1 .. ArenaQuanta : FileCacheAdd(i)
    \/ \E atom_fn \in Atoms : FileCacheRetrieve(atom_fn)
    \/ \E atom_fn \in Atoms : FileCacheInvalidate(atom_fn)
    \/ FileCacheFlushCall
    \/ FileCacheFlushStep
    \/ FileCacheFlushReturn

\* the flush loop is ordinary sequential code: once entered it keeps running
FairFlush ==
    /\ Init /\ [][NextFlush]_vars
    /\ WF_vars(FileCacheFlushStep \/ FileCacheFlushReturn)

\* ------------------------------------------------------------ block cache
\* bound: no call is made that would take the references the ring counts,
\* over all slots and each count taken without its sign, past this
MaxBlockRefs == 1

RECURSIVE CountedRefs(_, _)
CountedRefs(bm, n) ==
    IF n = 0 THEN 0
    ELSE (IF bm.blocks[n - 1].refs < 0 THEN 0 - bm.blocks[n - 1].refs
          ELSE bm.blocks[n - 1].refs)
         + CountedRefs(bm, n - 1)

RefsInBudget(bm) == CountedRefs(bm, MAX_BLOCKS) <= MaxBlockRefs

\* the ids callers pass: the blocks of file X that are in the ring, the
\* lowest numbered block of X that is not (block numbers matter to the
\* manager only through block_eq, so one absent block stands for all), and
\* block 0 of file Y
CallerIds ==
    LET inRing == { block_mgr.blocks[i].id : i \in Slots }
        absent == { n \in 0 .. MAX_BLOCKS :
                      block_cache_make_id("X", n) \notin inRing }
    IN  { id \in inRing : id.atom_fn = "X" }
          \cup { block_cache_make_id("X", Min(absent)) }
          \cup { block_cache_make_id("Y", 0) }

\* block_cache_alloc(id)
BlockCacheAlloc(id) ==
    LET r == BlockMgr_alloc(block_mgr, id)
    IN  /\ Callable
        /\ block_mgr' = r.bm
        /\ issued' = IF issued.recording
                     THEN [issued EXCEPT !.slots =
                             @ \cup { k \in Slots :
                                        block_mgr.blocks[k].mem = r.ret }]
                     ELSE issued
        /\ ret' = [op |-> "block_cache_alloc", mem |-> r.ret,
                   passed |-> r.passed]
        /\ UNCHANGED << cache_allocator, extant_bufs, file_cache, pc, call,
                        attempts, checkouts >>
        /\ UNCHANGED testVars

\* block_cache_mark_completed(id)
BlockCacheMarkCompleted(id) ==
    /\ Callable
    /\ block_mgr' = BlockMgr_mark_completed(block_mgr, id)
    /\ ret' = [op |-> "block_cache_mark_completed", mem |-> 0]
    /\ UNCHANGED issued
    /\ UNCHANGED << cache_allocator, extant_bufs, file_cache, pc, call,
                    attempts, checkouts >>
    /\ UNCHANGED testVars

\* block_cache_find(id)
BlockCacheFind(id) ==
    LET r == BlockMgr_find(block_mgr, id)
    IN  /\ Callable
        /\ RefsInBudget(r.bm)
        /\ block_mgr' = r.bm
        /\ ret' = [op |-> "block_cache_find", mem |-> r.ret,
                   warned |-> r.warned]
        /\ UNCHANGED issued
        /\ UNCHANGED << cache_allocator, extant_bufs, file_cache, pc, call,
                        attempts, checkouts >>
        /\ UNCHANGED testVars

\* block_cache_release(id)
BlockCacheRelease(id) ==
    LET bm == BlockMgr_release(block_mgr, id)
    IN  /\ Callable
        /\ RefsInBudget(bm)
        /\ block_mgr' = bm
        /\ ret' = [op |-> "block_cache_release", mem |-> 0]
        /\ UNCHANGED issued
        /\ UNCHANGED << cache_allocator, extant_bufs, file_cache, pc, call,
                        attempts, checkouts >>
        /\ UNCHANGED testVars

\* the block cache as the archive reader drives it, and file reloads
NextBM ==
    \/ \E id \in CallerIds : BlockCacheAlloc(id)
    \/ \E id \in CallerIds : BlockCacheMarkCompleted(id)
    \/ \E id \in CallerIds : BlockCacheFind(id)
    \/ \E id \in CallerIds : BlockCacheRelease(id)
    \/ \E atom_fn \in Atoms : FileCacheInvalidate(atom_fn)

SpecBM == Init /\ [][NextBM]_vars

\* the same, with the history issued recorded
InitRecording == Constructed /\ issued = [recording |-> TRUE, slots |-> {}]

SpecBMRecorded == InitRecording /\ [][NextBM]_vars

\* ---------------------------------------------------------------- helpers
RECURSIVE SumSizes(_, _)
SumSizes(ca, nodes) ==
    IF nodes = {} THEN 0
    ELSE LET n == CHOOSE x \in nodes : TRUE
         IN  (IF is_valid_tag(ca.hdr[n]) THEN ca.hdr[n] ELSE 0)
             + SumSizes(ca, nodes \ {n})

\* bytes on the freelists plus the never-allocated tail
TotalFree(ca) == SumSizes(ca, FreeNodes(ca)) + (MAX_CACHE_SIZE - ca.pos)

\* the quantum-rounded range of an outstanding allocation
RangeOf(p) == p .. (p + RoundedSize(allocations[p]) - 1)

\* ------------------------------------------------------------------- C1
\* C1: under well-formed alloc/free use, the quantum-rounded ranges of all
\* outstanding allocations are pairwise disjoint and lie inside the arena,
\* and alloc never returns an address that is still outstanding.
C1_NoOverlap ==
    /\ \A p \in DOMAIN allocations :
          /\ POOL_BASE <= p
          /\ p + RoundedSize(allocations[p]) <= POOL_BASE + MAX_CACHE_SIZE
    /\ \A p, q \in DOMAIN allocations :
          p # q => RangeOf(p) \cap RangeOf(q) = {}
    /\ (last.op = "alloc" /\ last.p # 0) => ~last.dup

\* an alloc was served from a freelist while other allocations are outstanding
C1_Witness ==
    /\ last.op = "alloc" /\ last.path \in {"class", "larger"}
    /\ Cardinality(DOMAIN allocations) >= 2

\* ------------------------------------------------------------------- C2
\* C2: once every successful allocation has been freed again, the total free
\* capacity (freelists plus never-allocated tail) equals the arena capacity.
C2_RoundTrip ==
    (allocations = << >>) => TotalFree(cache_allocator) = MAX_CACHE_SIZE

\* ------------------------------------------------------------------- C3
\* C3: once every successful allocation has been freed again, an alloc for
\* the full arena capacity succeeds.  A failed alloc leaves the allocator as
\* it was, so the free capacity seen after a failure is the one the request
\* met: the formula does not count a failure that met less than the whole
\* arena (a region lost beforehand).
C3_FullAllocSucceeds ==
    ( /\ last.op = "alloc" /\ last.size = MAX_CACHE_SIZE
      /\ last.n_out = 0
      /\ last.p = 0 )
    => TotalFree(cache_allocator) # MAX_CACHE_SIZE

\* ------------------------------------------------------------------- C4
\* the region [lo, hi) the two most recent calls freed, when they were frees
\* of address-adjacent regions
PairLo == Min({prev.p, last.p})
PairMid == Max({prev.p, last.p})
PairHi == PairLo + RoundedSize(prev.size) + RoundedSize(last.size)

\* C4: after two address-adjacent allocated regions have been freed, in
\* either order, exactly one freelist entry spans both: its size is at least
\* their sum and no freelist entry begins or ends at their common boundary.
C4_Coalesced ==
    AdjacentFrees(prev, last) =>
        LET ca == cache_allocator
            spanning == { n \in FreeNodes(ca) :
                            n <= PairLo /\ n + ca.hdr[n] >= PairHi }
        IN  /\ Cardinality(spanning) = 1
            /\ \A n \in FreeNodes(ca) :
                  n # PairMid /\ n + ca.hdr[n] # PairMid
            /\ \A c \in SizeClasses : \A i, j \in 1 .. Len(ca.freelists[c]) :
                  ca.freelists[c][i] = ca.freelists[c][j] => i = j

FairSpec ==
    Spec /\ WF_vars(FileBufAllocReturn \/ FileBufAllocEvict \/ FileBufAllocSpin)

\* cache_allocator.alloc(size) returns 0 for the request being served
CannotSatisfy == alloc(cache_allocator, call.size).p = 0

\* C6: a file_buf_alloc whose first alloc fails while the file cache holds
\* an entry eventually returns, or the program stops; it does not stay in
\* its loop forever.
C6_EvictionLiveness ==
    (pc = "alloc" /\ attempts = 0 /\ CannotSatisfy /\ ~Cache_empty(file_cache))
        ~> (pc = "idle" \/ cache_allocator.corrupt)

\* ------------------------------------------------------------------- C7
\* C7: when alloc cannot satisfy the request and the file cache is empty,
\* file_buf_alloc is no longer in its loop once the retry bound has been
\* passed (it has returned a failure).
C7_StopsAtRetryBound ==
    (pc = "alloc" /\ CannotSatisfy /\ Cache_empty(file_cache))
        => attempts <= RETRY_WARN + 1

\* ------------------------------------------------------------------- C8
\* C8: a release reports the buffer fully released (find_and_remove returns
\* true) exactly when it is the last of as many releases as there were
\* check-outs of that buffer.
C8_RefCount ==
    (ret.op = "file_buf_free" /\ ret.found)
        => (ret.actually_removed <=> ret.left = 0)

\* ------------------------------------------------------------------- C9
\* C9: a release frees the region through the allocator exactly when it makes
\* the buffer fully released and the file cache does not hold this very
\* buffer under the buffer's owner.
C9_FreedUnlessCached ==
    (ret.op = "file_buf_free" /\ ret.found)
        => (ret.freed <=> (ret.actually_removed /\ ~ret.held))

\* ------------------------------------------------------------------ C10
\* buf lies inside no live entry of the registry
Untracked(buf) ==
    \A i \in 1 .. Len(extant_bufs.bufs) :
        LET eb == extant_bufs.bufs[i]
        IN  eb.buf = 0 \/ buf < eb.buf \/ buf >= eb.buf + eb.size

\* C10: file_buf_free of an address inside no live registry entry raises the
\* not-on-extant-list error and leaves the registry, the file cache and the
\* allocator as they were.
C10_UntrackedRelease ==
    [][ \A buf \in BufAddrs :
          (Untracked(buf) /\ FileBufFree(buf))
              => /\ ~ret'.found
                 /\ UNCHANGED << extant_bufs, file_cache, cache_allocator >> ]_vars

\* an untracked address was released while the registry holds a live entry
\* and the cache an entry
C10_Witness ==
    /\ ret.op = "file_buf_free" /\ ~ret.found
    /\ \E i \in 1 .. Len(extant_bufs.bufs) : extant_bufs.bufs[i].buf # 0
    /\ ~Cache_empty(file_cache)

\* ------------------------------------------------------------------ C11
\* the file cache holds the buffer that address buf lies in
HeldByCache(buf) ==
    \E key \in DOMAIN file_cache :
        /\ file_cache[key].buf <= buf
        /\ buf < file_cache[key].buf + file_cache[key].size

\* C11: while the file cache holds a buffer, file_buf_free of that buffer
\* never frees its memory (the suballocator is left as it was);
\* file_cache_invalidate of the buffer's owner removes the owner's entry and
\* passes the buffer to the suballocator's free once; file_cache_invalidate of
\* an owner the cache has no entry for leaves the cache and the suballocator
\* unchanged.
C11_CacheHoldsUntilInvalidate ==
    [][ /\ \A buf \in BufAddrs :
              (FileBufFree(buf) /\ HeldByCache(buf))
                  => cache_allocator' = cache_allocator
        /\ \A atom_fn \in Atoms :
              FileCacheInvalidate(atom_fn)
                  => IF atom_fn \in DOMAIN file_cache
                     THEN /\ file_cache' = Cache_remove(file_cache, atom_fn)
                          /\ cache_allocator'
                                = free(cache_allocator, file_cache[atom_fn].buf,
                                       file_cache[atom_fn].size)
                     ELSE UNCHANGED << file_cache, cache_allocator >>
      ]_vars

\* ------------------------------------------------------------------ C12
\* the references the registry counts, over all live entries that contain buf
RECURSIVE OutstandingRefs(_, _)
OutstandingRefs(bufs, buf) ==
    IF bufs = << >> THEN 0
    ELSE (IF matches(Head(bufs), buf) THEN Head(bufs).refs ELSE 0)
         + OutstandingRefs(Tail(bufs), buf)

\* C12: file_cache_retrieve of an owner the cache has an entry for raises
\* the registry's reference count for the cached buffer by exactly one: a
\* live entry that contains the buffer gets one more reference and nothing
\* else in the registry changes, or, if there is no such entry, one with
\* count 1 is made; one file_buf_free then takes the count back to what it
\* was.  On a miss the registry is unchanged.
C12_RetrieveAddsOneRef ==
    [][ \A atom_fn \in Atoms :
          FileCacheRetrieve(atom_fn)
              => IF Cache_retrieve(file_cache, atom_fn)
                 THEN LET buf == file_cache[atom_fn].buf
                          before == OutstandingRefs(extant_bufs.bufs, buf)
                          released ==
                              ExtantBufMgr_find_and_remove(extant_bufs', buf)
                      IN  /\ ret'.hit
                          /\ OutstandingRefs(extant_bufs'.bufs, buf) = before + 1
                          /\ IF before > 0
                             THEN \E i \in 1 .. Len(extant_bufs.bufs) :
                                     /\ matches(extant_bufs.bufs[i], buf)
                                     /\ extant_bufs' =
                                           [extant_bufs EXCEPT
                                               !.bufs[i].refs = @ + 1]
                             ELSE \E i \in 1 .. Len(extant_bufs'.bufs) :
                                     /\ extant_bufs'.bufs[i].buf = buf
                                     /\ extant_bufs'.bufs[i].refs = 1
                          /\ released.found
                          /\ OutstandingRefs(released.m.bufs, buf) = before
                 ELSE /\ ~ret'.hit
                      /\ extant_bufs' = extant_bufs
      ]_vars

\* a retrieve has hit a buffer its caller already held: the one entry for
\* it now counts two references
C12_Witness ==
    /\ ret.op = "file_cache_retrieve" /\ ret.hit
    /\ \E i \in 1 .. Len(extant_bufs.bufs) :
          /\ extant_bufs.bufs[i].refs = 2
          /\ HeldByCache(extant_bufs.bufs[i].buf)

\* ------------------------------------------------------------------ C13
\* C13: file_cache_find is a pure lookup: it reports whether the cache has
\* an entry for the owner and, on a hit as on a miss, leaves the file cache,
\* the registry (entries, reference counts, epoch) and the suballocator as
\* they were.
C13_FindIsPure ==
    [][ \A atom_fn \in Atoms :
          FileCacheFind(atom_fn)
              => /\ ret'.hit = (atom_fn \in DOMAIN file_cache)
                 /\ file_cache' = file_cache
                 /\ extant_bufs' = extant_bufs
                 /\ cache_allocator' = cache_allocator
      ]_vars

\* a lookup has hit while the registry holds the cached buffer
C13_Witness ==
    /\ ret.op = "file_cache_find" /\ ret.hit
    /\ \E i \in 1 .. Len(extant_bufs.bufs) :
          /\ extant_bufs.bufs[i].refs >= 1
          /\ HeldByCache(extant_bufs.bufs[i].buf)

\* ------------------------------------------------------------------ C14
\* file_cache_flush has returned: the cache is empty and the loop passed
\* each entry the cache held at the call to cache_allocator.free exactly
\* once, and nothing else
FlushedAll ==
    /\ pc = "idle"
    /\ ret.op = "file_cache_flush"
    /\ Cache_empty(file_cache)
    /\ Len(ret.freed) = Cardinality(DOMAIN ret.cached)
    /\ \A key \in DOMAIN ret.cached :
          \E i \in 1 .. Len(ret.freed) :
              /\ ret.freed[i] = [key |-> key, buf |-> ret.cached[key].buf,
                                 size |-> ret.cached[key].size]
              /\ \A j \in 1 .. Len(ret.freed) :
                    ret.freed[j].key = key => j = i

OtherAllocations == DOMAIN allocations \ {last.p}

\* the last call was an alloc made while exactly n buffers were outstanding,
\* each of the size it asked for
AmongEqualSized(n) ==
    /\ last.op = "alloc" /\ last.size > 0
    /\ last.n_out = n
    /\ Cardinality(OtherAllocations) = n
    /\ \A q \in OtherAllocations : allocations[q] = last.size

\* C15: when allocations of one size fill the arena exactly, one more
\* allocation of that size fails; after any one of the buffers has been
\* freed, the allocation, tried again, succeeds and returns an address
\* within the freed buffer's former range.
C15_FullThenFreeThenRetry ==
    \A n \in 0 .. ArenaQuanta :
        /\ (AmongEqualSized(n) /\ n * last.size = MAX_CACHE_SIZE)
              => last.p = 0
        /\ ( /\ AmongEqualSized(n) /\ (n + 1) * last.size = MAX_CACHE_SIZE
             /\ prev.op = "free" /\ prev.size = last.size )
              => ( /\ last.p # 0
                   /\ prev.p <= last.p
                   /\ last.p < prev.p + prev.size )

\* the arena was full of one-quantum buffers, the second of them was freed
\* and an allocation of one quantum has returned its address
C15_Witness ==
    /\ AmongEqualSized(ArenaQuanta - 1) /\ last.size = BUF_ALIGN
    /\ prev.op = "free" /\ prev.size = BUF_ALIGN
    /\ prev.p = POOL_BASE + BUF_ALIGN
    /\ last.p = prev.p

\* ------------------------------------------------------------------ C16
\* the ring as MAX_BLOCKS allocations in a row of blocks 0, 1, .. of file X
\* fill it from new: slot i holds block i, and the cursor is back at 0
RingFilledInOrder ==
    /\ block_mgr.oldest_block = 0
    /\ \A i \in Slots : block_mgr.blocks[i].id = block_cache_make_id("X", i)

\* block_cache_alloc of the next block, MAX_BLOCKS, takes slot 0
NextBlockReusesSlot0 ==
    /\ ret'.mem = block_mgr.blocks[0].mem
    /\ block_mgr'.blocks[0].id = block_cache_make_id("X", MAX_BLOCKS)
    /\ block_mgr'.blocks[0].status = BS_PENDING
    /\ \A i \in Slots \ {0} : block_mgr'.blocks[i] = block_mgr.blocks[i]

\* C16: with the ring filled in order by blocks 0 .. MAX_BLOCKS - 1 and the
\* cursor back at 0, alloc of block MAX_BLOCKS made while block 0 has
\* reference count 0 succeeds and reuses slot 0.
C16_ReuseOldest ==
    [][ ( /\ RingFilledInOrder
          /\ BlockCacheAlloc(block_cache_make_id("X", MAX_BLOCKS))
          /\ block_mgr.blocks[0].refs = 0 )
        => NextBlockReusesSlot0 ]_vars

\* C16, amended: ... made while block 0 has reference count 0 and is not
\* Pending (its read has been marked completed, or it was invalidated)
\* succeeds and reuses slot 0.
C16_ReuseOldestNotPending ==
    [][ ( /\ RingFilledInOrder
          /\ BlockCacheAlloc(block_cache_make_id("X", MAX_BLOCKS))
          /\ block_mgr.blocks[0].refs = 0
          /\ block_mgr.blocks[0].status # BS_PENDING )
        => NextBlockReusesSlot0 ]_vars

\* block MAX_BLOCKS has been given slot 0, which held the completed block 0;
\* the other slots still hold the blocks the ring was filled with
C16_Witness ==
    /\ ret.op = "block_cache_alloc"
    /\ ret.mem = block_mgr.blocks[0].mem
    /\ block_mgr.oldest_block = 1 % MAX_BLOCKS
    /\ block_mgr.blocks[0].id = block_cache_make_id("X", MAX_BLOCKS)
    /\ block_mgr.blocks[0].status = BS_PENDING
    /\ \A i \in Slots \ {0} :
          /\ block_mgr.blocks[i].id = block_cache_make_id("X", i)
          /\ block_mgr.blocks[i].status = BS_COMPLETE

\* ------------------------------------------------------------------ C17
\* every id block_cache_alloc may be called with
BlockIds ==
    { block_cache_make_id("X", n) : n \in 0 .. MAX_BLOCKS }
        \cup { block_cache_make_id("Y", 0) }

\* alloc may take slot k: it is not Pending and nothing references it
Reusable(k) ==
    block_mgr.blocks[k].status # BS_PENDING /\ block_mgr.blocks[k].refs = 0

\* how many slots the cursor has to go past to reach slot k
RingDistance(k) == (k - block_mgr.oldest_block) % MAX_BLOCKS

\* slot k is the first reusable slot at or after the cursor, in ring order
FirstReusable(k) ==
    /\ Reusable(k)
    /\ \A j \in Slots : Reusable(j) => RingDistance(k) <= RingDistance(j)

\* C17: if the block in the slot under the cursor is Complete and still
\* referenced, alloc does not reuse it but takes the next reusable slot in
\* ring order, and the slot it went past keeps its id, status, reference
\* count and memory; alloc never hands out a slot that has a nonzero
\* reference count or is Pending.
C17_SkipIfLocked ==
    [][ \A id \in BlockIds :
          (ret'.op = "block_cache_alloc" /\ BlockCacheAlloc(id))
              => LET cur == block_mgr.oldest_block
                 IN  /\ ( /\ block_mgr.blocks[cur].status = BS_COMPLETE
                          /\ block_mgr.blocks[cur].refs > 0 )
                        => /\ block_mgr'.blocks[cur] = block_mgr.blocks[cur]
                           /\ \A k \in Slots :
                                 FirstReusable(k)
                                    => /\ ret'.mem = block_mgr.blocks[k].mem
                                       /\ block_mgr'.blocks[k].id = id
                     /\ \A k \in Slots :
                           ret'.mem = block_mgr.blocks[k].mem => Reusable(k)
      ]_vars

\* alloc has gone past the slot under the cursor, whose block is Complete
\* and referenced, and handed out the slot after it
C17_Witness ==
    /\ ret.op = "block_cache_alloc" /\ ret.passed = 1 /\ ret.mem # 0
    /\ \E k \in Slots :
          /\ block_mgr.blocks[k].mem = ret.mem
          /\ block_mgr.blocks[k].status = BS_PENDING
          /\ block_mgr.blocks[(k + MAX_BLOCKS - 1) % MAX_BLOCKS].status
                = BS_COMPLETE
          /\ block_mgr.blocks[(k + MAX_BLOCKS - 1) % MAX_BLOCKS].refs > 0

\* ------------------------------------------------------------------ C18
\* C18: alloc fails exactly when none of the slots is reusable (every slot
\* is Pending or has a nonzero reference count); a failed alloc leaves every
\* slot's id, status and reference count, and the ring cursor, as they were.
C18_FailsIffAllLocked ==
    [][ \A id \in BlockIds :
          (ret'.op = "block_cache_alloc" /\ BlockCacheAlloc(id))
              => /\ (ret'.mem = 0) <=> (\A k \in Slots : ~Reusable(k))
                 /\ (ret'.mem = 0) => block_mgr' = block_mgr
      ]_vars

\* alloc has failed after going round the whole ring: one slot is Complete
\* and referenced, another Pending
C18_Witness ==
    /\ ret.op = "block_cache_alloc" /\ ret.mem = 0
    /\ ret.passed = MAX_BLOCKS
    /\ \E k \in Slots : /\ block_mgr.blocks[k].status = BS_COMPLETE
                        /\ block_mgr.blocks[k].refs > 0
    /\ \E k \in Slots : block_mgr.blocks[k].status = BS_PENDING
    /\ block_mgr.oldest_block # 0

\* ------------------------------------------------------------------ C19
\* the call before this one was an alloc of id that handed out slot k, and
\* no other slot holds id unless it is Invalid (alloc was not called for a
\* block the ring still held as Pending or Complete)
HandedOut(k, id) ==
    /\ ret.op = "block_cache_alloc" /\ ret.mem = block_mgr.blocks[k].mem
    /\ block_eq(block_mgr.blocks[k].id, id)
    /\ block_mgr.blocks[k].status = BS_PENDING
    /\ \A j \in Slots \ {k} :
          block_eq(block_mgr.blocks[j].id, id)
              => block_mgr.blocks[j].status = BS_INVALID

\* C19: mark_completed(id), called after alloc(id) has succeeded, takes the
\* Pending slot that alloc handed out to Complete and changes no other slot,
\* whatever calls of alloc, find, release and invalidate came before
\* (invalidate of the block's file followed by a new alloc of the same id
\* among them).
C19_CompletesHandedOutSlot ==
    [][ \A id \in BlockIds : \A k \in Slots :
          (HandedOut(k, id) /\ BlockCacheMarkCompleted(id))
              => /\ block_mgr'.blocks[k].status = BS_COMPLETE
                 /\ \A j \in Slots \ {k} :
                       block_mgr'.blocks[j] = block_mgr.blocks[j]
      ]_vars

C21_UsageErrorOnlyWhenPending ==
    [][ \A id \in BlockIds :
          (ret'.op = "block_cache_find" /\ BlockCacheFind(id))
              => /\ ret'.warned
                    => \E k \in Slots :
                          /\ block_eq(block_mgr.blocks[k].id, id)
                          /\ block_mgr.blocks[k].status = BS_PENDING
                 /\ (\A k \in Slots :
                        block_eq(block_mgr.blocks[k].id, id)
                           => block_mgr.blocks[k].status = BS_INVALID)
                       => ret'.mem = 0 /\ ~ret'.warned
      ]_vars

\* ------------------------------------------------------------------ C22
\* C22: release(id) lowers by one the reference count of a slot that holds
\* id and changes nothing else, and no call leaves a slot with a reference
\* count below zero (a release that would do so is refused as an error).
C22_ReleaseKeepsRefsNonNegative ==
    [][ /\ \A id \in BlockIds :
              (ret'.op = "block_cache_release" /\ BlockCacheRelease(id))
                  => \/ /\ \A k \in Slots :
                              ~block_eq(block_mgr.blocks[k].id, id)
                        /\ block_mgr' = block_mgr
                     \/ \E k \in Slots :
                           /\ block_eq(block_mgr.blocks[k].id, id)
                           /\ block_mgr' =
                                 [block_mgr EXCEPT !.blocks[k].refs = @ - 1]
        /\ \A k \in Slots : block_mgr'.blocks[k].refs >= 0
      ]_vars

\* ------------------------------------------------------------------ C23
\* invalidate(atom_fn) has made every slot of the file Invalid and has left
\* every other field, every other slot and the ring cursor as they were
InvalidatedOnly(atom_fn) ==
    /\ block_mgr'.oldest_block = block_mgr.oldest_block
    /\ \A k \in Slots :
          IF block_mgr.blocks[k].id.atom_fn = atom_fn
          THEN block_mgr'.blocks[k] =
                  [block_mgr.blocks[k] EXCEPT !.status = BS_INVALID]
          ELSE block_mgr'.blocks[k] = block_mgr.blocks[k]

\* C23: invalidate(file) makes every slot of the file Invalid, referenced
\* or not, and leaves the slots of other files, all reference counts and the
\* ring cursor unchanged; and find(id) returns memory only of a slot that
\* alloc(id) handed out after the last invalidate of the file and that was
\* completed since, never memory written before the invalidate.
C23_InvalidateHidesOldBlocks ==
    [][ /\ \A atom_fn \in Atoms :
              (ret'.op = "file_cache_invalidate"
                  /\ FileCacheInvalidate(atom_fn))
                  => InvalidatedOnly(atom_fn)
        /\ \A id \in BlockIds :
              (ret'.op = "block_cache_find" /\ BlockCacheFind(id)
                  /\ ret'.mem # 0)
                  => \E k \in issued.slots :
                        /\ block_mgr.blocks[k].mem = ret'.mem
                        /\ block_eq(block_mgr.blocks[k].id, id)
                        /\ block_mgr.blocks[k].status = BS_COMPLETE
      ]_vars

\* ------------------------------------------------------------------ C24
\* a slot holds id as Pending or Complete
Held(id) ==
    \E k \in Slots : /\ block_eq(block_mgr.blocks[k].id, id)
                     /\ block_mgr.blocks[k].status # BS_INVALID

\* the block cache driven by callers that never call alloc for a block the
\* ring holds as Pending or Complete
NextBMUnheld ==
    \/ \E id \in CallerIds : ~Held(id) /\ BlockCacheAlloc(id)
    \/ \E id \in CallerIds : BlockCacheMarkCompleted(id)
    \/ \E id \in CallerIds : BlockCacheFind(id)
    \/ \E id \in CallerIds : BlockCacheRelease(id)
    \/ \E atom_fn \in Atoms : FileCacheInvalidate(atom_fn)

SpecBMUnheld == Init /\ [][NextBMUnheld]_vars

\* C24: as long as alloc is never called for an id that a Pending or
\* Complete slot holds, no two slots that are not Invalid hold the same
\* block id; and every slot's memory pointer is the one the constructor gave
\* it.
C24_OneSlotPerId ==
    /\ \A j, k \in Slots :
          ( /\ j # k
            /\ block_mgr.blocks[j].status # BS_INVALID
            /\ block_mgr.blocks[k].status # BS_INVALID )
              => ~block_eq(block_mgr.blocks[j].id, block_mgr.blocks[k].id)
    /\ \A k \in Slots :
          block_mgr.blocks[k].mem = BlockMgr_ctor.blocks[k].mem

\* ------------------------------------------------------------------ C25
\* C25: reset() leaves all freelists and the occupancy bitmap empty and the
\* bump cursor at the arena base, and from then on every alloc returns the
\* address a newly constructed allocator returns when it is given the same
\* calls, the old boundary tags that are still in memory notwithstanding.
C25_ResetIsFresh ==
    /\ last.op = "reset"
          => /\ cache_allocator.pos = CacheAllocator_ctor.pos
             /\ cache_allocator.bitmap = CacheAllocator_ctor.bitmap
             /\ cache_allocator.freelists = CacheAllocator_ctor.freelists
    /\ (twin.on /\ last.op = "alloc") => last.p = twin.p

\* ------------------------------------------------------------------ C26
\* C26: free(p, size) of a region whose quantum-rounded range
\* [p, p + round_up(size)) does not lie entirely in the arena is rejected
\* and has no effect: freelists, occupancy bitmap, bump cursor and all
\* boundary tags are after the call what they were before it.
C26_StrayFreeRejected ==
    [][ \A p \in StrayAddrs, size \in StraySizes :
          (last'.op = "free" /\ last'.p = p /\ last'.size = size
              /\ TestFreeStray(p, size))
              => cache_allocator' = cache_allocator
      ]_vars

\* a region that starts in the arena and ends past it was passed to free
\* while the allocator had regions on its freelists and a region handed out
C26_Witness ==
    /\ last.op = "free"
    /\ last.p \in QuantumAddrs
    /\ ~InArena(last.p, round_up(last.size, BUF_ALIGN))
    /\ FreeNodes(cache_allocator) # {}
    /\ DOMAIN allocations # {}

\* ------------------------------------------------------------------ C27
\* the nodes on the freelist of class c that are large enough for size_pa
Fitting(ca, c, size_pa) ==
    { ca.freelists[c][i] : i \in 1 .. Len(ca.freelists[c]) }
        \cap { n \in QuantumAddrs : ca.hdr[n] >= size_pa }

C28_OnlyOwnerChanges ==
    [][ \A buf \in QuantumAddrs, atom_fn \in Atoms :
          (ret'.op = "file_buf_set_real_fn" /\ FileBufSetRealFn(buf, atom_fn))
          => LET old == extant_bufs.bufs
                 new == extant_bufs'.bufs
                 found == { i \in 1 .. Len(old) : matches(old[i], buf) }
             IN  /\ file_cache' = file_cache
                 /\ cache_allocator' = cache_allocator
                 /\ extant_bufs'.epoch = extant_bufs.epoch
                 /\ Len(new) = Len(old)
                 /\ found = {} => new = old
                 /\ found # {}
                    => \E i \in found :
                          /\ new[i] = [old[i] EXCEPT !.atom_fn = atom_fn]
                          /\ \A j \in 1 .. Len(old) : j # i => new[j] = old[j]
      ]_vars

\* the owner of a buffer was changed while the registry held two buffers
C28_Witness ==
    /\ ret.op = "file_buf_set_real_fn"
    /\ Len(extant_bufs.bufs) >= 2
    /\ \A i \in 1 .. Len(extant_bufs.bufs) : extant_bufs.bufs[i].buf # 0
    /\ \E i, j \in 1 .. Len(extant_bufs.bufs) :
          extant_bufs.bufs[i].atom_fn # extant_bufs.bufs[j].atom_fn

\* ------------------------------------------------------------------ C29
\* the live registry entries whose quanta the size_ bytes at p share
Holders(p, size_) ==
    { i \in 1 .. Len(extant_bufs.bufs) :
        LET eb == extant_bufs.bufs[i]
        IN  /\ eb.buf # 0
            /\ eb.buf < p + RoundedSize(size_)
            /\ p < eb.buf + RoundedSize(eb.size) }

\* C29: no facade step takes an entry out of the file cache (eviction in
\* file_buf_alloc, file_cache_invalidate and file_cache_flush each pass the
\* entry they remove to the suballocator's free) while the registry still
\* counts references to its buffer, and file_buf_alloc never returns memory
\* that shares a quantum with a buffer the registry still holds.
C29_HeldNeverFreed ==
    [][ /\ \A key \in DOMAIN file_cache :
              key \notin DOMAIN file_cache'
                  => OutstandingRefs(extant_bufs.bufs, file_cache[key].buf) = 0
        /\ FileBufAllocReturn
              => Holders(alloc(cache_allocator, call.size).p, call.size) = {}
      ]_vars

\* ------------------------------------------------------------------ C30
\* a freelist entry shares a quantum with the size_ bytes at p
OnFreelist(ca, p, size_) ==
    \E n \in FreeNodes(ca) :
        n < p + RoundedSize(size_) /\ p < n + ca.hdr[n]

\* C30: no facade step passes to the suballocator's free a region that
\* shares a quantum with a freelist entry: not file_buf_free when it frees
\* the buffer it fully released, and not eviction in file_buf_alloc,
\* file_cache_invalidate or file_cache_flush for the entries they take out
\* of the file cache (no two of which overlap either).
C30_NoDoubleFree ==
    [][ /\ \A buf \in BufAddrs :
              (ret'.op = "file_buf_free" /\ ret'.freed /\ FileBufFree(buf))
                  => LET f == ExtantBufMgr_find_and_remove(extant_bufs, buf)
                     IN  ~OnFreelist(cache_allocator, f.exact_buf, f.size)
        /\ \A key \in DOMAIN file_cache :
              key \notin DOMAIN file_cache'
                  => /\ ~OnFreelist(cache_allocator, file_cache[key].buf,
                                    file_cache[key].size)
                     /\ \A other \in DOMAIN file_cache \ {key} :
                           \/ other \in DOMAIN file_cache'
                           \/ file_cache[other].buf
                                 >= file_cache[key].buf
                                    + RoundedSize(file_cache[key].size)
                           \/ file_cache[key].buf
                                 >= file_cache[other].buf
                                    + RoundedSize(file_cache[other].size)
      ]_vars

\* ------------------------------------------------------------------ C31
\* bound: as MaxEpoch, for the behaviours of SpecChecked (two check-outs and
\* the release of each are four registry calls)
MaxCalls == 5

\* the facade without file_cache_invalidate: buffers of two quanta, all for
\* one file, released by the address file_buf_alloc returned
NextChecked ==
    \/ FileBufAllocCallWithin(MaxCalls, BUF_ALIGN + 1, "X", FALSE)
    \/ FileBufAllocReturn
    \/ FileBufAllocEvict
    \/ FileBufAllocSpin
    \/ \E buf \in QuantumAddrs : FileBufFreeWithin(MaxCalls, buf)
    \/ \E i \in 1 .. ArenaQuanta : FileCacheAdd(i)
    \/ FileCacheRetrieveWithin(MaxCalls, "X")
    \/ FileCacheFlush

SpecChecked == Init /\ [][NextChecked]_vars

\* C31: after file_buf_alloc, file_cache_add, file_cache_retrieve and
\* file_buf_free calls that released every buffer as often as it was checked
\* out, file_cache_flush leaves the whole arena free: the bytes on the
\* freelists and the never-allocated tail add up to the arena's capacity.
C31_NoLeak ==
    ( /\ ret.op = "file_cache_flush"
      /\ \A a \in DOMAIN checkouts : checkouts[a] = 0
      /\ ~cache_allocator.corrupt )
        => TotalFree(cache_allocator) = MAX_CACHE_SIZE

\* ------------------------------------------------------------------ C32
\* C32: every freelist is in ascending address order: each node's successor
\* on its list has a strictly higher address.
C32_AscendingFreelists ==
    \A c \in SizeClasses :
        \A i \in 1 .. (Len(cache_allocator.freelists[c]) - 1) :
            cache_allocator.freelists[c][i] < cache_allocator.freelists[c][i + 1]

\* ------------------------------------------------------------------ C33
\* the places <<class, index>> on the freelists whose region holds quantum q
FreeAt(q) ==
    { ci \in SizeClasses \X (1 .. ArenaQuanta) :
        /\ ci[2] <= Len(cache_allocator.freelists[ci[1]])
        /\ LET n == cache_allocator.freelists[ci[1]][ci[2]]
           IN  n <= q /\ q < n + cache_allocator.hdr[n] }

\* the regions handed to the caller that hold quantum q
HeldAt(q) == { p \in DOMAIN allocations : q \in RangeOf(p) }

\* C33: every quantum of the arena is in exactly one of: the never-allocated
\* tail, one region at one place on the freelists, one region handed to the
\* caller.
C33_ArenaPartition ==
    ~cache_allocator.corrupt
        => \A q \in QuantumAddrs :
              (IF q >= POOL_BASE + cache_allocator.pos THEN 1 ELSE 0)
                + Cardinality(FreeAt(q)) + Cardinality(HeldAt(q)) = 1

\* ------------------------------------------------------------------ C34
\* C34: no two regions on the freelists are address-adjacent: none ends
\* where another begins.
C34_MaximallyMerged ==
    ~cache_allocator.corrupt
        => \A n, m \in FreeNodes(cache_allocator) :
              n # m => n + cache_allocator.hdr[n] # m

\* two adjacent regions of one and two quanta were freed one after the
\* other and merged while another, separate region is on the freelists
C34_Witness ==
    /\ ~cache_allocator.corrupt
    /\ AdjacentFrees(prev, last)
    /\ prev.size # 0 /\ last.size # 0
    /\ Cardinality(FreeNodes(cache_allocator)) = 2

\* ------------------------------------------------------------------ C35
\* C35: every node on a freelist carries a valid Header, whose size_pa is a
\* positive multiple of the quantum, and a valid Footer with the same size_pa
\* in the last quantum that size_pa gives the region; the node is on the
\* list of the size class of size_pa; and no region handed to the caller has
\* a valid Header in its first quantum or a valid Footer in its last.
C35_BoundaryTags ==
    ~cache_allocator.corrupt
        => /\ \A c \in SizeClasses :
                \A i \in 1 .. Len(cache_allocator.freelists[c]) :
                    LET n == cache_allocator.freelists[c][i]
                        size_pa == cache_allocator.hdr[n]
                    IN  /\ is_valid_tag(size_pa)
                        /\ size_pa > 0 /\ size_pa % BUF_ALIGN = 0
                        /\ FooterAt(n, size_pa) \in QuantumAddrs
                        /\ cache_allocator.ftr[FooterAt(n, size_pa)] = size_pa
                        /\ c = size_class_of(size_pa)
           /\ \A p \in DOMAIN allocations :
                /\ ~is_valid_tag(cache_allocator.hdr[p])
                /\ ~is_valid_tag(cache_allocator.ftr[
                        FooterAt(p, RoundedSize(allocations[p]))])

\* ------------------------------------------------------------------ C36
\* C36: when alloc(size) has returned 0, the never-allocated tail is smaller
\* than the rounded request, no region on a freelist is as large as it, and
\* every size class above the request's is empty, in bitmap and in
\* freelists (the TEST that ends alloc_from_larger_class holds).
C36_FailsOnlyWhenNothingFits ==
    (last.op = "alloc" /\ last.p = 0 /\ ~cache_allocator.corrupt)
        => LET size_pa == RoundedSize(last.size)
           IN  /\ MAX_CACHE_SIZE - cache_allocator.pos < size_pa
               /\ \A n \in FreeNodes(cache_allocator) :
                     cache_allocator.hdr[n] < size_pa
               /\ \A c \in SizeClasses :
                     c > size_class_of(size_pa)
                         => /\ c \notin cache_allocator.bitmap
                            /\ cache_allocator.freelists[c] = << >>

\* alloc has failed while two regions, each too small, are on the freelists
C36_Witness ==
    /\ last.op = "alloc" /\ last.p = 0 /\ ~cache_allocator.corrupt
    /\ Cardinality(FreeNodes(cache_allocator)) = 2
    /\ \A n \in FreeNodes(cache_allocator) : cache_allocator.hdr[n] > 0

\* ------------------------------------------------------------------ C37
\* C37: alloc takes a region from a freelist only when the never-allocated
\* tail of the arena cannot satisfy the rounded request.
C37_TailBeforeFreelists ==
    [][ \A size \in ReqSizes :
          (/\ last'.op = "alloc" /\ last'.size = size
           /\ last'.path \in {"class", "larger"}
           /\ TestAlloc(size))
          => cache_allocator.pos + RoundedSize(size) > MAX_CACHE_SIZE ]_vars

\* ------------------------------------------------------------------ C38
\* C38: the cursor oldest_block is always a slot index; a successful alloc
\* hands out the first reusable slot (not Pending, reference count 0) at
\* or after the cursor in ring order, leaves the cursor one past that slot
\* (modulo the ring size), and makes the slot Pending with the new id, its
\* reference count still 0.
C38_RingOrder ==
    [][ /\ block_mgr.oldest_block \in Slots
        /\ block_mgr'.oldest_block \in Slots
        /\ \A id \in BlockIds :
              (ret'.op = "block_cache_alloc" /\ ret'.mem # 0
               /\ BlockCacheAlloc(id))
                  => \A k \in Slots :
                        ret'.mem = block_mgr.blocks[k].mem
                            => /\ FirstReusable(k)
                               /\ block_mgr'.oldest_block
                                     = (k + 1) % MAX_BLOCKS
                               /\ block_mgr'.blocks[k].status = BS_PENDING
                               /\ block_mgr'.blocks[k].id = id
                               /\ block_mgr'.blocks[k].refs = 0
                               /\ block_mgr.blocks[k].refs = 0
      ]_vars

\* alloc has handed out the last slot of the array, so the cursor has
\* wrapped to slot 0, which holds a block that is Complete and referenced
C38_Witness ==
    /\ ret.op = "block_cache_alloc" /\ ret.mem # 0
    /\ ret.mem = block_mgr.blocks[MAX_BLOCKS - 1].mem
    /\ block_mgr.blocks[MAX_BLOCKS - 1].status = BS_PENDING
    /\ block_mgr.blocks[MAX_BLOCKS - 1].refs = 0
    /\ block_mgr.oldest_block = 0
    /\ block_mgr.blocks[0].status = BS_COMPLETE
    /\ block_mgr.blocks[0].refs > 0

\* ------------------------------------------------------------------ C39
\* the registry slots whose reference count is 0
Tombstones(m) == { i \in 1 .. Len(m.bufs) : m.bufs[i].refs = 0 }

\* a slot holds a buffer address exactly when it is referenced, and a slot
\* that is not referenced matches no address
SlotsWellFormed(m) ==
    \A i \in 1 .. Len(m.bufs) :
        /\ m.bufs[i].refs >= 0
        /\ (m.bufs[i].buf # 0) <=> (m.bufs[i].refs >= 1)
        /\ m.bufs[i].refs = 0
              => \A buf \in BufAddrs \cup {0, 1} : ~matches(m.bufs[i], buf)

\* C39: in every reachable state a registry slot holds a non-null buffer
\* address exactly when its reference count is at least 1, and a slot whose
\* count is 0 matches no address; the registry grows only when it has no
\* such slot, and an add made while it has one fills one of them.
C39_RegistrySlots ==
    [][ /\ SlotsWellFormed(extant_bufs)
        /\ SlotsWellFormed(extant_bufs')
        /\ Len(extant_bufs'.bufs) > Len(extant_bufs.bufs)
              => Tombstones(extant_bufs) = {}
        /\ (ret'.op = "file_buf_alloc" /\ Tombstones(extant_bufs) # {}
            /\ FileBufAllocReturn)
              => /\ Len(extant_bufs'.bufs) = Len(extant_bufs.bufs)
                 /\ \E i \in Tombstones(extant_bufs) :
                       /\ extant_bufs'.bufs[i].refs = 1
                       /\ Tombstones(extant_bufs')
                             = Tombstones(extant_bufs) \ {i}
      ]_vars

\* file_buf_alloc has registered its buffer in the only slot of the
\* registry, a tombstone since the buffer registered before was released
C39_Witness ==
    /\ ret.op = "file_buf_alloc" /\ pc = "idle"
    /\ Len(extant_bufs.bufs) = 1
    /\ extant_bufs.bufs[1].refs = 1
    /\ extant_bufs.bufs[1].epoch = 3
    /\ extant_bufs.epoch = 4

\* ------------------------------------------------------------------ C40
\* a registry add was made after slot i was filled: the buffer it
\* registered went into another slot, which has carried a later epoch
\* since (a released slot keeps its epoch)
AddedSince(m, i) ==
    \E j \in 1 .. Len(m.bufs) : j # i /\ m.bufs[j].epoch > m.bufs[i].epoch

\* C40: file_buf_free of a registered buffer that is not long-lived raises
\* "buf not released immediately" exactly when a registry add was made
\* while the buffer was outstanding; the release of a long-lived buffer
\* never raises it.
C40_LateIffAddedSince ==
    [][ \A buf \in BufAddrs :
          (ret'.op = "file_buf_free" /\ ret'.found /\ FileBufFree(buf))
              => LET i == FirstMatch(extant_bufs, buf)
                 IN  IF extant_bufs.bufs[i].epoch = 0
                     THEN ~ret'.late
                     ELSE ret'.late <=> AddedSince(extant_bufs, i) ]_vars

====
